---- MODULE Spec2Model ----
(***************************************************************************)
(* Rigid-body (composite particle) force reduction and state spreading of  *)
(* hoomd/md/ForceCompositeGPU.cu.                                          *)
(*                                                                         *)
(* Scalars are modelled as integers (exact arithmetic).  Arrays are        *)
(* functions over 0-based index ranges, as in the source.  A kernel launch *)
(* is one action: the value every thread of every block computes is        *)
(* derived lane by lane as the kernel derives it.                          *)
(***************************************************************************)
EXTENDS Integers, Sequences, FiniteSets, TLC

(***************************************************************************)
(* Bounds of the model                                                     *)
(***************************************************************************)
\* number of non-trivial force-field samples the environment may write
MaxPattern == 2
\* number of non-trivial integrator moves of the central particles
MaxMotion == 2
\* largest caller-preferred block size tried
MaxBlockSize == 8

(***************************************************************************)
(* Program constants                                                       *)
(***************************************************************************)
\* An unsigned 32 bit integer v is held as the integer congruent to v modulo
\* 2^32 in -2^31 .. 2^31-1 (its two's complement reading): 0xffffffff is -1.
UINT_MAX == -1
\* body tag of a particle that belongs to no body (hoomd/ParticleData.cuh)
NO_BODY == -1
\* reverse-tag entry of a particle held neither locally nor as a ghost
NOT_LOCAL == -1
\* size of the per-block header tables body_type, body_orientation, ...
HeaderSlots == 16
\* sizeof(Scalar), single precision build
SizeofScalar == 4
\* sizeof(unsigned int)
SizeofUInt == 4
\* attr.maxThreadsPerBlock of the kernels
MaxThreadsPerBlock == 8

\* a < b and a >= b on unsigned 32 bit integers
ULess(a, b) == IF (a < 0) = (b < 0) THEN a < b ELSE b < 0
UGeq(a, b) == ~ULess(a, b)

\* unsigned 32 bit subtraction a - b (no value of the model leaves the range)
USub(a, b) == a - b

\* variant: the template index counted from the tag of the central particle
LocalIdxFromCentral(tag, central_tag) == USub(tag, central_tag)

\* unsigned int local_idx = tag - central_tag - 1;
LocalIdx(tag, central_tag) == USub(USub(tag, central_tag), 1)

RECURSIVE BitAnd(_, _)
\* a & b on 32 bit integers
BitAnd(a, b) ==
    IF a = 0 \/ b = 0 THEN 0
    ELSE IF a = -1 THEN b
    ELSE IF b = -1 THEN a
    ELSE (IF a % 2 = 1 /\ b % 2 = 1 THEN 1 ELSE 0) + 2 * BitAnd(a \div 2, b \div 2)

Min(a, b) == IF a < b THEN a ELSE b

(***************************************************************************)
(* Vector and quaternion arithmetic (hoomd/VectorMath.h).  A quaternion is *)
(* <<s, x, y, z>>; an orientation is held as an integer quaternion Q that  *)
(* stands for the unit quaternion Q / |Q|, so that quarter turns are       *)
(* exact: rotate divides by |Q|^2.                                         *)
(***************************************************************************)
Zero3 == <<0, 0, 0>>
Zero4 == <<0, 0, 0, 0>>
Zero6 == <<0, 0, 0, 0, 0, 0>>

Add3(a, b) == <<a[1] + b[1], a[2] + b[2], a[3] + b[3]>>
Add4(a, b) == <<a[1] + b[1], a[2] + b[2], a[3] + b[3], a[4] + b[4]>>
Add6(a, b) == [c \in 1..6 |-> a[c] + b[c]]
Scale3(k, a) == <<k * a[1], k * a[2], k * a[3]>>
Dot3(a, b) == a[1] * b[1] + a[2] * b[2] + a[3] * b[3]

cross(a, b) ==
    <<a[2] * b[3] - a[3] * b[2], a[3] * b[1] - a[1] * b[3], a[1] * b[2] - a[2] * b[1]>>

Norm2(q) == q[1] * q[1] + q[2] * q[2] + q[3] * q[3] + q[4] * q[4]

\* rotate(q, v) = (s^2 - |u|^2) v + 2 s (u x v) + 2 (u . v) u
rotate(q, v) ==
    LET s == q[1]
        u == <<q[2], q[3], q[4]>>
        r == Add3(Add3(Scale3(s * s - Dot3(u, u), v), Scale3(2 * s, cross(u, v))),
                  Scale3(2 * Dot3(u, v), u))
        n == Norm2(q)
    IN  <<r[1] \div n, r[2] \div n, r[3] \div n>>

\* quaternion product a * b
QuatMul(a, b) ==
    LET av == <<a[2], a[3], a[4]>>
        bv == <<b[2], b[3], b[4]>>
        v == Add3(Add3(Scale3(a[1], bv), Scale3(b[1], av)), cross(av, bv))
    IN  <<a[1] * b[1] - Dot3(av, bv), v[1], v[2], v[3]>>

\* two integer quaternions that stand for the same unit quaternion
SameOrientation(a, b) ==
    \E k \in 1..4 : \E l \in 1..4 : k * k * Norm2(b) = l * l * Norm2(a)
                                     /\ \A c \in 1..4 : k * a[c] = l * b[c]

(***************************************************************************)
(* Index2D (hoomd/Index1D.h): operator()(i, j) = j * w + i                 *)
(***************************************************************************)
Index2D(ix, i, j) == j * ix.w + i

(***************************************************************************)
(* BoxDim: an orthorhombic periodic box [BoxLo, BoxHi) of length BoxL per  *)
(* axis.  wrap shifts a coordinate outside the box by one box length and   *)
(* counts the shift in the image flag.                                     *)
(***************************************************************************)
BoxHi == 2
BoxLo == 0 - BoxHi
BoxL == BoxHi - BoxLo

WrapAxis(x, i) ==
    IF x >= BoxHi THEN <<x - BoxL, i + 1>>
    ELSE IF x < BoxLo THEN <<x + BoxL, i - 1>>
    ELSE <<x, i>>

\* box.wrap(pos, img): the wrapped position and the updated image
wrap(pos, img) ==
    [pos |-> <<WrapAxis(pos[1], img[1])[1], WrapAxis(pos[2], img[2])[1],
               WrapAxis(pos[3], img[3])[1]>>,
     img |-> <<WrapAxis(pos[1], img[1])[2], WrapAxis(pos[2], img[2])[2],
               WrapAxis(pos[3], img[3])[2]>>]

(***************************************************************************)
(* The particle system.  Tags 0..5: body 0 = {0 (central), 1, 2},          *)
(* body 3 = {3 (central), 4}, tag 5 is a free particle.                    *)
(***************************************************************************)
Tags == 0..5

\* body tag of a particle, by tag (central particles carry their own tag)
BodyOfTag(t) == IF t \in {0, 1, 2} THEN 0 ELSE IF t \in {3, 4} THEN 3 ELSE NO_BODY

\* particle type by tag; the type of a central particle is its body type
Types == 0..3
NTypes == Cardinality(Types)
TypeOfTag(t) == IF t = 0 THEN 0 ELSE IF t = 3 THEN 1 ELSE IF t = 4 THEN 3 ELSE 2

\* largest number of constituents of a body type
LocalIndices == 0..1
MaxConstituents == Cardinality(LocalIndices)
body_indexer == [w |-> NTypes, h |-> MaxConstituents]

\* body type template: local position and orientation by (body type, local index)
TemplatePos(ty, l) ==
    IF ty = 0 /\ l = 0 THEN <<1, 0, 0>>
    ELSE IF ty = 0 /\ l = 1 THEN <<0, 2, 1>>
    ELSE IF ty = 1 /\ l = 0 THEN <<-1, 1, 0>>
    ELSE Zero3

TemplateOrientation(ty, l) ==
    IF ty = 0 /\ l = 0 THEN <<1, 0, 0, 1>>
    ELSE IF ty = 0 /\ l = 1 THEN <<1, 0, 0, 0>>
    ELSE IF ty = 1 /\ l = 0 THEN <<0, 0, 1, 0>>
    ELSE <<1, 0, 0, 0>>

TemplateIdx == 0..(NTypes * MaxConstituents - 1)
d_body_pos == [x \in TemplateIdx |-> TemplatePos(x % NTypes, x \div NTypes)]
d_body_orientation == [x \in TemplateIdx |-> TemplateOrientation(x % NTypes, x \div NTypes)]

\* a read of the template tables; a read outside a table gives a value
\* that no template entry holds
BodyPosAt(x) == IF x \in TemplateIdx THEN d_body_pos[x] ELSE <<9, 9, 9>>
BodyOrientationAt(x) == IF x \in TemplateIdx THEN d_body_orientation[x] ELSE <<1, 1, 1, 1>>

\* storage layouts: the tag held at each storage index and the number of
\* locally owned particles; indices N .. Len-1 hold ghost particles and a
\* tag held nowhere is not local
Layouts ==
    { [tag |-> <<0, 1, 2, 3, 4, 5>>, N |-> 6],
      [tag |-> <<1, 0, 2, 4, 5, 3>>, N |-> 5],
      [tag |-> <<2, 0, 4, 5, 1>>, N |-> 4],
      [tag |-> <<0, 1, 2, 5, 4>>, N |-> 4],
      [tag |-> <<0, 2, 1, 5, 3, 4>>, N |-> 4] }

(***************************************************************************)
(* State                                                                   *)
(***************************************************************************)
VARIABLES
    N,               \* number of locally owned particles
    n_ghost,         \* number of ghost particles, held at indices N .. N+n_ghost-1
    d_tag,           \* storage index -> tag
    d_rtag,          \* tag -> storage index, or NOT_LOCAL
    d_body,          \* storage index -> body tag, or NO_BODY
    d_postype,       \* storage index -> <<x, y, z, type>>
    d_orientation,   \* storage index -> quaternion
    d_image,         \* storage index -> <<ix, iy, iz>>
    d_net_force,     \* storage index -> <<fx, fy, fz, energy>>
    d_net_torque,    \* storage index -> <<tx, ty, tz, 0>>
    d_net_virial,    \* component * net_virial_pitch + storage index -> scalar
    d_force,         \* output force of the reducer
    d_torque,        \* output torque of the reducer
    d_virial,        \* output virial, component * virial_pitch + storage index
    n_mol,           \* number of bodies in the molecule index
    d_molecule_len,  \* body -> number of members
    d_molecule_list, \* molecule_indexer(body, slot) -> storage index
    op,              \* the operation that ran last and its flag
    fault,           \* a kernel was aborted on an illegal address
    call,            \* the last call of a reducer entry point seen from the host
    kern,            \* the kernel launch in flight: kernel, launch parameters, zero_force
    blk,             \* block -> barrier phase, threads arrived, shared memory, registers
    hist             \* what the threads of the launch have visited, zeroed and written

vars == <<N, n_ghost, d_tag, d_rtag, d_body, d_postype, d_orientation, d_image,
          d_net_force, d_net_torque, d_net_virial, d_force, d_torque, d_virial,
          n_mol, d_molecule_len, d_molecule_list, op, fault, call, kern, blk, hist>>

layout_vars == <<N, n_ghost, d_tag, d_rtag, d_body, n_mol, d_molecule_len, d_molecule_list>>
particle_vars == <<d_postype, d_orientation, d_image>>
net_vars == <<d_net_force, d_net_torque, d_net_virial>>
out_vars == <<d_force, d_torque, d_virial>>
host_vars == <<call>>
kernel_vars == <<kern, blk, hist>>

\* no entry point has been called
NoCall == [fn |-> "none"]

\* no kernel launch is followed thread by thread
NoKernel == [fn |-> "none"]
Idle == kern = NoKernel /\ blk = <<>> /\ hist = <<>>

NP == N + n_ghost
Indices == 0..(NP - 1)

net_virial_pitch == NP
virial_pitch == NP + 1
molecule_indexer == [w |-> n_mol, h |-> 3]

(***************************************************************************)
(* Environment: the molecule index is built from the layout, the force     *)
(* field writes the net force, torque and virial of every particle, the    *)
(* integrator moves the central particles.  These are the inputs of the    *)
(* reducer and the spreader.                                               *)
(***************************************************************************)
\* storage index of tag t in a layout, or NOT_LOCAL
RTagOf(l, t) ==
    IF \E i \in 1..Len(l.tag) : l.tag[i] = t
    THEN (CHOOSE i \in 1..Len(l.tag) : l.tag[i] = t) - 1
    ELSE NOT_LOCAL

\* central tags of the bodies of the molecule index, in index order
BodyCentrals(l) ==
    IF RTagOf(l, 0) = NOT_LOCAL
    THEN (IF RTagOf(l, 3) = NOT_LOCAL THEN <<>> ELSE <<3>>)
    ELSE (IF RTagOf(l, 3) = NOT_LOCAL THEN <<0>> ELSE <<0, 3>>)

RECURSIVE MembersFrom(_, _, _)
\* storage indices of the held particles of body c with tag >= t, in tag order
MembersFrom(l, c, t) ==
    IF t \notin Tags THEN <<>>
    ELSE IF BodyOfTag(t) = c /\ RTagOf(l, t) # NOT_LOCAL
         THEN <<RTagOf(l, t)>> \o MembersFrom(l, c, t + 1)
         ELSE MembersFrom(l, c, t + 1)

MoleculeLen(l) ==
    [b \in 0..(Len(BodyCentrals(l)) - 1) |-> Len(MembersFrom(l, BodyCentrals(l)[b + 1], 0))]

MoleculeList(l) ==
    LET nm == Len(BodyCentrals(l))
    IN  [x \in 0..(nm * 3 - 1) |->
            LET mem == MembersFrom(l, BodyCentrals(l)[(x % nm) + 1], 0)
            IN  IF (x \div nm) < Len(mem) THEN mem[(x \div nm) + 1] ELSE NO_BODY]

Orientations == << <<1, 0, 0, 0>>, <<1, 0, 0, 1>>, <<0, 1, 0, 0>> >>

\* state of the central particle with tag t after integrator move q
CentralPos(q, t) ==
    <<((q + t) % BoxL) + BoxLo, ((2 * q) % BoxL) + BoxLo, BoxHi - 1 - (q % BoxL)>>
CentralOrientation(q, t) == Orientations[((q + t) % 3) + 1]
CentralImage(q, t) == <<q, 0, 0 - q>>

\* force field sample p for the particle with tag t (sample 0 is all zero)
NetForce(p, t) == IF p = 0 THEN Zero4 ELSE <<p, t, p - t, p + t>>
NetTorque(p, t) == IF p = 0 THEN Zero4 ELSE <<t, 0 - p, 1, 0>>
NetVirial(p, t) == IF p = 0 THEN Zero6 ELSE <<p, t, 0 - 1, p + t, 2, p * t>>

\* the value an earlier step left in the output slots at and above N
Stale4 == <<7, 7, 7, 7>>

\* the state at the entry of the reducer and the spreader: a layout, a
\* force field sample p written to the net arrays, the central particles
\* as integrator move q left them, and constituents not yet spread
InitWith(l, p, q) ==
        /\ N = l.N
        /\ n_ghost = Len(l.tag) - l.N
        /\ d_tag = [i \in 0..(Len(l.tag) - 1) |-> l.tag[i + 1]]
        /\ d_rtag = [t \in Tags |-> RTagOf(l, t)]
        /\ d_body = [i \in 0..(Len(l.tag) - 1) |-> BodyOfTag(l.tag[i + 1])]
        /\ n_mol = Len(BodyCentrals(l))
        /\ d_molecule_len = MoleculeLen(l)
        /\ d_molecule_list = MoleculeList(l)
        /\ d_postype = [i \in 0..(Len(l.tag) - 1) |->
               LET t == l.tag[i + 1]
                   pos == IF BodyOfTag(t) = t THEN CentralPos(q, t) ELSE Zero3
               IN  <<pos[1], pos[2], pos[3], TypeOfTag(t)>>]
        /\ d_orientation = [i \in 0..(Len(l.tag) - 1) |->
               IF BodyOfTag(l.tag[i + 1]) = l.tag[i + 1]
               THEN CentralOrientation(q, l.tag[i + 1]) ELSE Orientations[1]]
        /\ d_image = [i \in 0..(Len(l.tag) - 1) |->
               IF BodyOfTag(l.tag[i + 1]) = l.tag[i + 1]
               THEN CentralImage(q, l.tag[i + 1]) ELSE Zero3]
        /\ d_net_force = [i \in 0..(Len(l.tag) - 1) |-> NetForce(p, l.tag[i + 1])]
        /\ d_net_torque = [i \in 0..(Len(l.tag) - 1) |-> NetTorque(p, l.tag[i + 1])]
        /\ d_net_virial = [x \in 0..(6 * Len(l.tag) - 1) |->
               NetVirial(p, l.tag[(x % Len(l.tag)) + 1])[(x \div Len(l.tag)) + 1]]
        /\ d_force = [i \in 0..(Len(l.tag) - 1) |-> IF i < l.N THEN Zero4 ELSE Stale4]
        /\ d_torque = [i \in 0..(Len(l.tag) - 1) |-> IF i < l.N THEN Zero4 ELSE Stale4]
        /\ d_virial = [x \in 0..(6 * (Len(l.tag) + 1) - 1) |-> 0]
        /\ op = [kind |-> "init", flag |-> FALSE]
        /\ fault = FALSE

Init ==
    \E l \in Layouts : \E p \in 0..MaxPattern : \E q \in 0..MaxMotion :
        InitWith(l, p, q) /\ call = NoCall /\ Idle

(***************************************************************************)
(* Launch configuration of gpu_rigid_force and gpu_rigid_virial            *)
(***************************************************************************)
\* static shared memory of the sliding kernels: body_type, body_orientation,
\* mol_idx and central_idx, HeaderSlots entries each
StaticSharedBytes == HeaderSlots * (SizeofUInt + 4 * SizeofScalar + SizeofUInt + SizeofUInt)

\* dynamic shared memory per thread: a Scalar4 and a Scalar3; six Scalars
ForceBytesPerThread == 4 * SizeofScalar + 3 * SizeofScalar
VirialBytesPerThread == 6 * SizeofScalar

\* budgets dev_prop.sharedMemPerBlock tried: one that every block size fits
\* and one that forces the block size down to two threads
SharedMemChoices ==
    {49152, StaticSharedBytes + 2 * ForceBytesPerThread + VirialBytesPerThread}

\* bodies per block the kernels are written for
BodiesPerBlockChoices == {1, 2, 4, 8}

RECURSIVE RoundDownPow2(_, _)
\* b = 1; while (b * 2 <= run_block_size) b *= 2;
RoundDownPow2(b, run_block_size) ==
    IF b * 2 <= run_block_size THEN RoundDownPow2(b * 2, run_block_size) ELSE b

RECURSIVE HalveBlockSize(_, _, _)
\* while (shared_bytes + attr.sharedSizeBytes >= dev_prop.sharedMemPerBlock)
\*     run_block_size /= 2;
\* the loop does not end once run_block_size is 0 and the test still holds
HalveBlockSize(run_block_size, bytes_per_thread, sharedMemPerBlock) ==
    IF run_block_size * bytes_per_thread + StaticSharedBytes >= sharedMemPerBlock
    THEN IF run_block_size = 0
         THEN [hang |-> TRUE, run_block_size |-> 0]
         ELSE HalveBlockSize(run_block_size \div 2, bytes_per_thread, sharedMemPerBlock)
    ELSE [hang |-> FALSE, run_block_size |-> run_block_size]

\* the launch parameters computed before the kernel is started, for a
\* kernel with attr.maxThreadsPerBlock = max_block_size
SizeLaunch(block_size, max_block_size, n_bodies_per_block, bytes_per_thread, sharedMemPerBlock) ==
    LET first == RoundDownPow2(1, Min(max_block_size, block_size))
        fit == HalveBlockSize(first, bytes_per_thread, sharedMemPerBlock)
        window_size == fit.run_block_size \div n_bodies_per_block
    IN  [hang |-> fit.hang,
         run_block_size |-> fit.run_block_size,
         shared_bytes |-> fit.run_block_size * bytes_per_thread,
         window_size |-> window_size,
         thread_mask |-> USub(window_size, 1),
         n_bodies_per_block |-> n_bodies_per_block,
         n_blocks |-> (n_mol \div n_bodies_per_block) + 1]

LaunchConfig(block_size, n_bodies_per_block, bytes_per_thread, sharedMemPerBlock) ==
    SizeLaunch(block_size, MaxThreadsPerBlock, n_bodies_per_block, bytes_per_thread,
               sharedMemPerBlock)

\* the launches the kernels are written for: every body slot of a block has
\* a window of at least one thread
ValidLaunch(cfg) == ~cfg.hang /\ cfg.window_size >= 1

Threads(cfg) == 0..(cfg.run_block_size - 1)
\* variant: the grid without the block for the remainder of n_mol /
\* n_bodies_per_block
BlocksWithoutLast(cfg) == 0..(cfg.n_blocks - 2)

Blocks(cfg) == 0..(cfg.n_blocks - 1)

(***************************************************************************)
(* gpu_rigid_force_sliding_kernel                                          *)
(***************************************************************************)
\* m = threadIdx.x / (blockDim.x / n_bodies_per_block)
BodySlot(cfg, t) == t \div (cfg.run_block_size \div cfg.n_bodies_per_block)

\* threadIdx.x & thread_mask
Lane(cfg, t) == BitAnd(t, cfg.thread_mask)

\* variant: group_idx = m, the block index left out
HeaderIgnoringBlock(cfg, b, m) ==
    LET group_idx == m
    IN  IF group_idx < n_mol
        THEN LET central == d_molecule_list[Index2D(molecule_indexer, group_idx, 0)]
             IN  [mol_idx |-> group_idx,
                  central_idx |-> central,
                  body_type |-> d_postype[central][4],
                  body_orientation |-> d_orientation[central]]
        ELSE [mol_idx |-> NO_BODY, central_idx |-> NO_BODY,
              body_type |-> NO_BODY, body_orientation |-> Zero4]

\* the shared header entries of body slot m of block b, written by the
\* thread of the slot with lane 0
Header(cfg, b, m) ==
    LET group_idx == b * cfg.n_bodies_per_block + m
    IN  IF group_idx < n_mol
        THEN LET central == d_molecule_list[Index2D(molecule_indexer, group_idx, 0)]
             IN  [mol_idx |-> group_idx,
                  central_idx |-> central,
                  body_type |-> d_postype[central][4],
                  body_orientation |-> d_orientation[central]]
        ELSE [mol_idx |-> NO_BODY, central_idx |-> NO_BODY,
              body_type |-> NO_BODY, body_orientation |-> Zero4]

\* mol_idx[m] != NO_BODY && central_idx[m] < N
Gathers(hdr) == hdr.mol_idx # NO_BODY /\ ULess(hdr.central_idx, N)

\* the member a thread with lane ln handles in window pass start, or NO_BODY
\* when k is not below mol_len
MemberAt(cfg, hdr, ln, start) ==
    LET k == start * cfg.window_size + ln
    IN  IF k < d_molecule_len[hdr.mol_idx]
        THEN d_molecule_list[Index2D(molecule_indexer, hdr.mol_idx, k)]
        ELSE NO_BODY

\* variant: the central particle is folded like any other member
FoldsCentralToo(hdr, pidx) == pidx # NO_BODY

\* the member is folded: it is a member and not the central particle
Folds(hdr, pidx) == pidx # NO_BODY /\ pidx # hdr.central_idx

\* variant: the template offset is used in the body frame, without the
\* rotation by the orientation of the central particle
RelativePosBodyFrame(hdr, pidx) ==
    LET central_tag == d_tag[hdr.central_idx]
        local_idx == LocalIdx(d_tag[pidx], central_tag)
    IN  BodyPosAt(Index2D(body_indexer, hdr.body_type, local_idx))

\* variant: the template offset is rotated by the orientation stored for
\* the member itself
RelativePosOwnOrientation(hdr, pidx) ==
    LET central_tag == d_tag[hdr.central_idx]
        local_idx == LocalIdx(d_tag[pidx], central_tag)
        particle_pos == BodyPosAt(Index2D(body_indexer, hdr.body_type, local_idx))
    IN  rotate(d_orientation[pidx], particle_pos)

\* space frame offset of member pidx from the centre of its body
RelativePos(hdr, pidx) ==
    LET central_tag == d_tag[hdr.central_idx]
        local_idx == LocalIdx(d_tag[pidx], central_tag)
        particle_pos == BodyPosAt(Index2D(body_indexer, hdr.body_type, local_idx))
    IN  rotate(hdr.body_orientation, particle_pos)

\* what member pidx adds to sum_force and sum_torque
ForceTerm(hdr, pidx) == d_net_force[pidx]

TorqueTerm(hdr, pidx) ==
    LET fi == d_net_force[pidx]
        ti == d_net_torque[pidx]
        del_torque == cross(RelativePos(hdr, pidx), <<fi[1], fi[2], fi[3]>>)
    IN  <<ti[1] + del_torque[1], ti[2] + del_torque[2], ti[3] + del_torque[3]>>

RECURSIVE GatherForceWholeWindows(_, _, _, _, _)
\* variant: the loop runs over the whole windows only, n_windows without
\* the pass for the remainder
GatherForceWholeWindows(cfg, hdr, ln, start, acc) ==
    LET n_windows == d_molecule_len[hdr.mol_idx] \div cfg.window_size
        pidx == MemberAt(cfg, hdr, ln, start)
    IN  IF start >= n_windows THEN acc
        ELSE GatherForceWholeWindows(cfg, hdr, ln, start + 1,
                 IF Folds(hdr, pidx)
                 THEN [force |-> Add4(acc.force, ForceTerm(hdr, pidx)),
                       torque |-> Add3(acc.torque, TorqueTerm(hdr, pidx))]
                 ELSE acc)

RECURSIVE GatherForce(_, _, _, _, _)
\* the loop over the window passes start .. n_windows-1 of one thread
GatherForce(cfg, hdr, ln, start, acc) ==
    LET n_windows == (d_molecule_len[hdr.mol_idx] \div cfg.window_size) + 1
        pidx == MemberAt(cfg, hdr, ln, start)
    IN  IF start >= n_windows THEN acc
        ELSE GatherForce(cfg, hdr, ln, start + 1,
                 IF Folds(hdr, pidx)
                 THEN [force |-> Add4(acc.force, ForceTerm(hdr, pidx)),
                       torque |-> Add3(acc.torque, TorqueTerm(hdr, pidx))]
                 ELSE acc)

\* sum_force and sum_torque of thread t of block b after the gather phase
PartialForce(cfg, b, t) ==
    LET hdr == Header(cfg, b, BodySlot(cfg, t))
    IN  IF Gathers(hdr)
        THEN GatherForce(cfg, hdr, Lane(cfg, t), 0, [force |-> Zero4, torque |-> Zero3])
        ELSE [force |-> Zero4, torque |-> Zero3]

RECURSIVE ReduceForce(_, _, _)
\* the partial reductions: while (offset > 0) { ...; offset >>= 1; }
ReduceForce(cfg, scratch, offset) ==
    IF offset > 0
    THEN ReduceForce(cfg,
             [t \in DOMAIN scratch |->
                 IF Lane(cfg, t) < offset
                 THEN [force |-> Add4(scratch[t].force, scratch[t + offset].force),
                       torque |-> Add3(scratch[t].torque, scratch[t + offset].torque)]
                 ELSE scratch[t]],
             offset \div 2)
    ELSE scratch

\* body_force and body_torque of block b after the reduction
BlockForce(cfg, b) ==
    ReduceForce(cfg, [t \in Threads(cfg) |-> PartialForce(cfg, b, t)], cfg.window_size \div 2)

\* thread t of block b writes the body total out
PublishesForce(cfg, b, t) ==
    Lane(cfg, t) = 0 /\ Header(cfg, b, BodySlot(cfg, t)).mol_idx # NO_BODY

\* the writes of block b to d_force and d_torque
BlockForceWrites(cfg, b) ==
    UNION {{[idx |-> Header(cfg, b, BodySlot(cfg, t)).central_idx,
             force |-> total[t].force,
             torque |-> <<total[t].torque[1], total[t].torque[2], total[t].torque[3], 0>>] :
               t \in {u \in Threads(cfg) : PublishesForce(cfg, b, u)}} :
           total \in {BlockForce(cfg, b)}}

\* the constituents thread t of block b folds
FoldedBy(cfg, b, t) ==
    LET hdr == Header(cfg, b, BodySlot(cfg, t))
    IN  IF Gathers(hdr)
        THEN {pidx \in Indices :
                \E start \in 0..(d_molecule_len[hdr.mol_idx] \div cfg.window_size) :
                    pidx = MemberAt(cfg, hdr, Lane(cfg, t), start) /\ Folds(hdr, pidx)}
        ELSE {}

\* the constituents the pass folds
Folded(cfg) == UNION {FoldedBy(cfg, b, t) : b \in Blocks(cfg), t \in Threads(cfg)}

\* variant: the output array is not reset before the kernel
MemsetSkipped(d, i, count, zero) == d[i]

\* cudaMemset(d, 0, sizeof(element) * count): entry i of d after the reset
Memset(d, i, count, zero) == IF i < count THEN zero ELSE d[i]

\* the value of an output slot: the value a block wrote there, else the
\* value the memset left
OutputAt(writes, i, reset) ==
    IF \E w \in writes : w.idx = i THEN CHOOSE w \in writes : w.idx = i ELSE reset

\* the launches of gpu_rigid_force the caller may ask for
ForceLaunches ==
    {LaunchConfig(bs, bpb, ForceBytesPerThread, smem) :
        bs \in 1..MaxBlockSize, bpb \in BodiesPerBlockChoices, smem \in SharedMemChoices}

\* variant: the net force of a folded constituent is zeroed whatever
\* zero_force says
NetForceAlwaysZeroed(zero_force, folded, i) ==
    IF i \in folded THEN Zero4 ELSE d_net_force[i]

\* d_net_force[i] and d_net_torque[i] after the force kernel folded the
\* constituents in folded
NetForceAfterForce(zero_force, folded, i) ==
    IF zero_force /\ i \in folded THEN Zero4 ELSE d_net_force[i]

NetTorqueAfterForce(folded, i) == IF i \in folded THEN Zero4 ELSE d_net_torque[i]

\* the kernel's writes to the output slots
ForceWrites(cfg) == UNION {BlockForceWrites(cfg, b) : b \in Blocks(cfg)}

\* cudaError_t gpu_rigid_force(...): the memset of the N local output
\* slots, then the kernel
gpu_rigid_force(cfg, zero_force) ==
    /\ ~fault
    /\ ValidLaunch(cfg)
    /\ \E writes \in {ForceWrites(cfg)} : \E folded \in {Folded(cfg)} :
        /\ d_force' = [i \in Indices |->
               OutputAt(writes, i, [force |-> Memset(d_force, i, N, Zero4)]).force]
        /\ d_torque' = [i \in Indices |->
               OutputAt(writes, i, [torque |-> Memset(d_torque, i, N, Zero4)]).torque]
        /\ d_net_force' = [i \in Indices |-> NetForceAfterForce(zero_force, folded, i)]
        /\ d_net_torque' = [i \in Indices |-> NetTorqueAfterForce(folded, i)]
    /\ op' = [kind |-> "force", flag |-> zero_force]
    /\ UNCHANGED <<layout_vars, particle_vars, d_net_virial, d_virial, fault, host_vars, kernel_vars>>

(***************************************************************************)
(* gpu_rigid_virial_sliding_kernel                                         *)
(***************************************************************************)
\* variant: the off-diagonal components take r_a f_b in place of f_a r_b
VirialTermTransposed(hdr, pidx) ==
    LET fi == d_net_force[pidx]
        ri == RelativePos(hdr, pidx)
        v(c) == d_net_virial[c * net_virial_pitch + pidx]
    IN  <<v(0) - fi[1] * ri[1], v(1) - fi[2] * ri[1], v(2) - fi[3] * ri[1],
          v(3) - fi[2] * ri[2], v(4) - fi[3] * ri[2], v(5) - fi[3] * ri[3]>>

\* what member pidx adds to the six virial sums: its net virial less the
\* intra-body part f (x) r, components xx, xy, xz, yy, yz, zz
VirialTerm(hdr, pidx) ==
    LET fi == d_net_force[pidx]
        ri == RelativePos(hdr, pidx)
        v(c) == d_net_virial[c * net_virial_pitch + pidx]
    IN  <<v(0) - fi[1] * ri[1], v(1) - fi[1] * ri[2], v(2) - fi[1] * ri[3],
          v(3) - fi[2] * ri[2], v(4) - fi[2] * ri[3], v(5) - fi[3] * ri[3]>>

RECURSIVE GatherVirialWholeWindows(_, _, _, _, _)
\* variant: the loop runs over the whole windows only, n_windows without
\* the pass for the remainder
GatherVirialWholeWindows(cfg, hdr, ln, start, acc) ==
    LET n_windows == d_molecule_len[hdr.mol_idx] \div cfg.window_size
        pidx == MemberAt(cfg, hdr, ln, start)
    IN  IF start >= n_windows THEN acc
        ELSE GatherVirialWholeWindows(cfg, hdr, ln, start + 1,
                 IF Folds(hdr, pidx) THEN Add6(acc, VirialTerm(hdr, pidx)) ELSE acc)

RECURSIVE GatherVirial(_, _, _, _, _)
\* the loop over the window passes start .. n_windows-1 of one thread
GatherVirial(cfg, hdr, ln, start, acc) ==
    LET n_windows == (d_molecule_len[hdr.mol_idx] \div cfg.window_size) + 1
        pidx == MemberAt(cfg, hdr, ln, start)
    IN  IF start >= n_windows THEN acc
        ELSE GatherVirial(cfg, hdr, ln, start + 1,
                 IF Folds(hdr, pidx) THEN Add6(acc, VirialTerm(hdr, pidx)) ELSE acc)

\* the six sums of thread t of block b after the gather phase
PartialVirial(cfg, b, t) ==
    LET hdr == Header(cfg, b, BodySlot(cfg, t))
    IN  IF Gathers(hdr) THEN GatherVirial(cfg, hdr, Lane(cfg, t), 0, Zero6) ELSE Zero6

RECURSIVE ReduceVirial(_, _, _)
\* the partial reductions: while (offset > 0) { ...; offset >>= 1; }
ReduceVirial(cfg, scratch, offset) ==
    IF offset > 0
    THEN ReduceVirial(cfg,
             [t \in DOMAIN scratch |->
                 IF Lane(cfg, t) < offset THEN Add6(scratch[t], scratch[t + offset])
                 ELSE scratch[t]],
             offset \div 2)
    ELSE scratch

\* body_virial_xx .. body_virial_zz of block b after the reduction
BlockVirial(cfg, b) ==
    ReduceVirial(cfg, [t \in Threads(cfg) |-> PartialVirial(cfg, b, t)], cfg.window_size \div 2)

\* the writes of block b to d_virial
BlockVirialWrites(cfg, b) ==
    UNION {{[idx |-> Header(cfg, b, BodySlot(cfg, t)).central_idx, virial |-> total[t]] :
               t \in {u \in Threads(cfg) : PublishesForce(cfg, b, u)}} :
           total \in {BlockVirial(cfg, b)}}

VirialWrites(cfg) == UNION {BlockVirialWrites(cfg, b) : b \in Blocks(cfg)}

\* variant: the virial kernel leaves the net force of a folded member
NetForceKeptByVirial(folded, i) == d_net_force[i]

\* d_net_force[i] and entry x of d_net_virial after the virial kernel
\* folded the constituents in folded
NetForceAfterVirial(folded, i) == IF i \in folded THEN Zero4 ELSE d_net_force[i]

\* variant: the virial kernel leaves the net virial of a folded
\* constituent as it was
NetVirialKept(folded, x) == d_net_virial[x]

NetVirialAfterVirial(folded, x) ==
    IF (x % net_virial_pitch) \in folded THEN 0 ELSE d_net_virial[x]

\* the launches of gpu_rigid_virial the caller may ask for
VirialLaunches ==
    {LaunchConfig(bs, bpb, VirialBytesPerThread, smem) :
        bs \in 1..MaxBlockSize, bpb \in BodiesPerBlockChoices, smem \in SharedMemChoices}

\* cudaError_t gpu_rigid_virial(...): the memset of all 6 * virial_pitch
\* output entries, then the kernel
gpu_rigid_virial(cfg) ==
    /\ ~fault
    /\ ValidLaunch(cfg)
    /\ \E writes \in {VirialWrites(cfg)} : \E folded \in {Folded(cfg)} :
        /\ d_virial' = [x \in 0..(6 * virial_pitch - 1) |->
               OutputAt(writes, x % virial_pitch,
                        [virial |-> [c \in 1..6 |->
                            Memset(d_virial, (c - 1) * virial_pitch + (x % virial_pitch),
                                   6 * virial_pitch, 0)]]).virial[(x \div virial_pitch) + 1]]
        /\ d_net_force' = [i \in Indices |-> NetForceAfterVirial(folded, i)]
        /\ d_net_virial' = [x \in 0..(6 * net_virial_pitch - 1) |->
               NetVirialAfterVirial(folded, x)]
    /\ op' = [kind |-> "virial", flag |-> FALSE]
    /\ UNCHANGED <<layout_vars, particle_vars, d_net_torque, d_force, d_torque, fault, host_vars, kernel_vars>>

(***************************************************************************)
(* gpu_update_composite_kernel                                             *)
(***************************************************************************)
\* variant: the early returns without the test !remote && central_idx >= N
UpdateBranchAlwaysRemote(idx, remote) ==
    IF UGeq(idx, N + n_ghost) THEN "return"
    ELSE IF d_body[idx] = NO_BODY THEN "return"
    ELSE LET central_idx == d_rtag[d_body[idx]]
         IN  IF central_idx = NOT_LOCAL /\ UGeq(idx, N) THEN "return"
             ELSE IF idx = central_idx THEN "return"
             ELSE IF UGeq(central_idx, N + n_ghost) THEN "undefined"
             ELSE "update"

\* variant: the early returns without the test idx == central_idx
UpdateBranchOverCentral(idx, remote) ==
    IF UGeq(idx, N + n_ghost) THEN "return"
    ELSE IF d_body[idx] = NO_BODY THEN "return"
    ELSE LET central_idx == d_rtag[d_body[idx]]
         IN  IF ~remote /\ UGeq(central_idx, N) THEN "return"
             ELSE IF central_idx = NOT_LOCAL /\ UGeq(idx, N) THEN "return"
             ELSE IF UGeq(central_idx, N + n_ghost) THEN "undefined"
             ELSE "update"

\* the path thread idx takes through the early returns of the kernel:
\* "return", "update", or "undefined" when it goes on to read d_postype,
\* d_orientation and d_image at an index outside the arrays
UpdateBranch(idx, remote) ==
    IF UGeq(idx, N + n_ghost) THEN "return"
    ELSE IF d_body[idx] = NO_BODY THEN "return"
    ELSE LET central_idx == d_rtag[d_body[idx]]
         IN  IF ~remote /\ UGeq(central_idx, N) THEN "return"
             ELSE IF central_idx = NOT_LOCAL /\ UGeq(idx, N) THEN "return"
             ELSE IF idx = central_idx THEN "return"
             ELSE IF UGeq(central_idx, N + n_ghost) THEN "undefined"
             ELSE "update"

\* variant: the position is written back with the body type of the central
\* particle
UpdateFromBodyType(idx, postype, orientation, img) ==
    LET pos == <<postype[1], postype[2], postype[3]>>
        body_type == postype[4]
        central_tag == d_body[idx]
        tag == d_tag[idx]
        local_idx == LocalIdx(tag, central_tag)
        local_pos == BodyPosAt(Index2D(body_indexer, body_type, local_idx))
        dr_space == rotate(orientation, local_pos)
        updated_pos == Add3(pos, dr_space)
        local_orientation == BodyOrientationAt(Index2D(body_indexer, body_type, local_idx))
        updated_orientation == QuatMul(orientation, local_orientation)
        wrapped == wrap(updated_pos, img)
    IN  [postype |-> <<wrapped.pos[1], wrapped.pos[2], wrapped.pos[3], body_type>>,
         image |-> wrapped.img,
         updated_orientation |-> updated_orientation]

\* variant: the wrap starts from the image of the constituent and not from
\* the image of the central particle
UpdateFromOwnImage(idx, postype, orientation, img) ==
    LET pos == <<postype[1], postype[2], postype[3]>>
        body_type == postype[4]
        local_idx == LocalIdx(d_tag[idx], d_body[idx])
        local_pos == BodyPosAt(Index2D(body_indexer, body_type, local_idx))
        local_orientation == BodyOrientationAt(Index2D(body_indexer, body_type, local_idx))
        wrapped == wrap(Add3(pos, rotate(orientation, local_pos)), d_image[idx])
    IN  [postype |-> <<wrapped.pos[1], wrapped.pos[2], wrapped.pos[3], d_postype[idx][4]>>,
         image |-> wrapped.img,
         updated_orientation |-> QuatMul(orientation, local_orientation)]

\* variant: the template offset is added to the central position without
\* the rotation by the central orientation
UpdateFromUnrotated(idx, postype, orientation, img) ==
    LET pos == <<postype[1], postype[2], postype[3]>>
        body_type == postype[4]
        local_idx == LocalIdx(d_tag[idx], d_body[idx])
        local_pos == BodyPosAt(Index2D(body_indexer, body_type, local_idx))
        local_orientation == BodyOrientationAt(Index2D(body_indexer, body_type, local_idx))
        wrapped == wrap(Add3(pos, local_pos), img)
    IN  [postype |-> <<wrapped.pos[1], wrapped.pos[2], wrapped.pos[3], d_postype[idx][4]>>,
         image |-> wrapped.img,
         updated_orientation |-> QuatMul(orientation, local_orientation)]

\* what thread idx computes from the values read for its central particle
UpdateFrom(idx, postype, orientation, img) ==
    LET pos == <<postype[1], postype[2], postype[3]>>
        body_type == postype[4]
        central_tag == d_body[idx]
        tag == d_tag[idx]
        local_idx == LocalIdx(tag, central_tag)
        local_pos == BodyPosAt(Index2D(body_indexer, body_type, local_idx))
        dr_space == rotate(orientation, local_pos)
        updated_pos == Add3(pos, dr_space)
        local_orientation == BodyOrientationAt(Index2D(body_indexer, body_type, local_idx))
        updated_orientation == QuatMul(orientation, local_orientation)
        wrapped == wrap(updated_pos, img)
        type == d_postype[idx][4]
    IN  [postype |-> <<wrapped.pos[1], wrapped.pos[2], wrapped.pos[3], type>>,
         image |-> wrapped.img,
         updated_orientation |-> updated_orientation]

\* the values thread idx writes when its central particle is held
UpdateOf(idx) ==
    LET central_idx == d_rtag[d_body[idx]]
    IN  UpdateFrom(idx, d_postype[central_idx], d_orientation[central_idx],
                   d_image[central_idx])

\* values a read outside the arrays may give
GarbageReads ==
    {[postype |-> <<1, 1, 1, 0>>, orientation |-> <<1, 0, 0, 0>>, image |-> <<5, 5, 5>>],
     [postype |-> <<0, 0, 0, 1>>, orientation |-> <<0, 0, 0, 1>>, image |-> <<0, 0, 0>>]}

\* the launches of gpu_update_composite the caller may ask for
UpdateLaunch(block_size) ==
    LET run_block_size == IF MaxThreadsPerBlock <= block_size
                          THEN MaxThreadsPerBlock ELSE block_size
    IN  [run_block_size |-> run_block_size,
         n_blocks |-> ((N + n_ghost) \div run_block_size) + 1]

UpdateLaunches == {UpdateLaunch(bs) : bs \in 1..MaxBlockSize}

\* blockIdx.x * blockDim.x + threadIdx.x of every thread of the launch
UpdateThreads(launch) ==
    {b * launch.run_block_size + t :
        b \in 0..(launch.n_blocks - 1), t \in 0..(launch.run_block_size - 1)}

\* void gpu_update_composite(...).  A thread that reads outside the arrays
\* either goes on with the values the read gave, or aborts the kernel, and
\* then any of the other threads may have written before the abort.
gpu_update_composite(launch, remote) ==
    /\ ~fault
    /\ \E updated \in {{idx \in UpdateThreads(launch) : UpdateBranch(idx, remote) = "update"}} :
       \E undefined \in {{idx \in UpdateThreads(launch) : UpdateBranch(idx, remote) = "undefined"}} :
       \E aborted \in (IF undefined = {} THEN {FALSE} ELSE BOOLEAN) :
       \E done \in (IF aborted THEN SUBSET updated ELSE {updated}) :
       \E g \in (IF undefined = {} \/ aborted THEN {CHOOSE x \in GarbageReads : TRUE}
                 ELSE GarbageReads) :
        /\ fault' = aborted
        /\ d_postype' = [i \in Indices |->
               IF i \in done THEN UpdateOf(i).postype
               ELSE IF i \in undefined /\ ~aborted
                    THEN UpdateFrom(i, g.postype, g.orientation, g.image).postype
                    ELSE d_postype[i]]
        /\ d_image' = [i \in Indices |->
               IF i \in done THEN UpdateOf(i).image
               ELSE IF i \in undefined /\ ~aborted
                    THEN UpdateFrom(i, g.postype, g.orientation, g.image).image
                    ELSE d_image[i]]
    /\ op' = [kind |-> "update", flag |-> remote]
    /\ UNCHANGED <<layout_vars, d_orientation, net_vars, out_vars, host_vars, kernel_vars>>

Next ==
    \/ \E cfg \in ForceLaunches : \E zero_force \in BOOLEAN : gpu_rigid_force(cfg, zero_force)
    \/ \E cfg \in VirialLaunches : gpu_rigid_virial(cfg)
    \/ \E launch \in UpdateLaunches : \E remote \in BOOLEAN : gpu_update_composite(launch, remote)

Spec == Init /\ [][Next]_vars

(***************************************************************************)
(* The reducer entry points seen from the host: the arguments of a call,   *)
(* the launch parameters it computes and what it returns.                  *)
(***************************************************************************)
\* a block size and a thread ceiling wide enough for more body slots than
\* the header tables hold
WideBlockSize == 2 * HeaderSlots

HostBlockSizes == (0..MaxBlockSize) \cup {WideBlockSize}
HostMaxBlockSizes == {MaxThreadsPerBlock, WideBlockSize}
HostBodiesPerBlock ==
    BodiesPerBlockChoices \cup {3, HeaderSlots, HeaderSlots + 1, 2 * HeaderSlots}
\* budgets dev_prop.sharedMemPerBlock: those of SharedMemChoices, one the
\* static tables alone exhaust and one that leaves room for no thread
HostSharedMem == SharedMemChoices \cup {StaticSharedBytes, StaticSharedBytes + 1}

BytesPerThread(fn) ==
    IF fn = "gpu_rigid_force" THEN ForceBytesPerThread ELSE VirialBytesPerThread

\* what the host sees of a call: the kernel is launched once the sizing
\* loop ends, and the only return statement returns cudaSuccess
CallOutcome(fn, block_size, max_block_size, n_bodies_per_block, sharedMemPerBlock) ==
    LET cfg == SizeLaunch(block_size, max_block_size, n_bodies_per_block,
                          BytesPerThread(fn), sharedMemPerBlock)
    IN  [fn |-> fn,
         block_size |-> block_size,
         max_block_size |-> max_block_size,
         n_bodies_per_block |-> n_bodies_per_block,
         sharedMemPerBlock |-> sharedMemPerBlock,
         cfg |-> cfg,
         launched |-> ~cfg.hang,
         result |-> IF cfg.hang THEN "hang" ELSE "cudaSuccess"]

\* a call depends on no earlier call (max_block_size and attr are cached
\* attributes of the kernel), so a behaviour shows one call
HostCall(fn) ==
    /\ call = NoCall
    /\ \E block_size \in HostBlockSizes : \E max_block_size \in HostMaxBlockSizes :
       \E n_bodies_per_block \in HostBodiesPerBlock : \E sharedMemPerBlock \in HostSharedMem :
          call' = CallOutcome(fn, block_size, max_block_size, n_bodies_per_block,
                              sharedMemPerBlock)
    /\ UNCHANGED <<layout_vars, particle_vars, net_vars, out_vars, op, fault, kernel_vars>>

HostInit == \E l \in Layouts : InitWith(l, 1, 1) /\ call = NoCall /\ Idle

HostNext ==
    \/ HostCall("gpu_rigid_force")
    \/ HostCall("gpu_rigid_virial")

HostSpec == HostInit /\ [][HostNext]_vars

(***************************************************************************)
(* One launch of gpu_rigid_force_sliding_kernel or of                      *)
(* gpu_rigid_virial_sliding_kernel followed thread by thread.  The threads *)
(* of a block run each stretch of code between two __syncthreads() in any  *)
(* order and the blocks run independently of each other.  The stretches: *)
(* "header" (lines 129-146), "gather" (150-215), "scratch" (220-222),      *)
(* "reduce" (one round of 229-244 for the current offset), "publish"       *)
(* (249-253).                                                              *)
(***************************************************************************)
\* the one element of a set of one element
TheOne(S) == CHOOSE x \in S : TRUE

\* launches followed thread by thread have at most this many threads
MaxKernelThreads == 8

\* the private sums of a thread and the scratch slot of a thread: sum_force
\* and sum_torque in the force kernel, the six sum_virial in the virial kernel
ZeroPartial == [force |-> Zero4, torque |-> Zero3, virial |-> Zero6]
AddPartial(a, b) ==
    [force |-> Add4(a.force, b.force), torque |-> Add3(a.torque, b.torque),
     virial |-> Add6(a.virial, b.virial)]

EmptyHeader ==
    [mol_idx |-> NO_BODY, central_idx |-> NO_BODY, body_type |-> NO_BODY,
     body_orientation |-> Zero4]

KernelLaunches(fn) ==
    {cfg \in (IF fn = "force" THEN ForceLaunches ELSE VirialLaunches) :
        ValidLaunch(cfg) /\ cfg.run_block_size * cfg.n_blocks <= MaxKernelThreads}

InitialBlock(cfg) ==
    [phase |-> "header", offset |-> 0, done |-> {},
     hdr |-> [m \in 0..(cfg.n_bodies_per_block - 1) |-> EmptyHeader],
     scratch |-> [t \in Threads(cfg) |-> ZeroPartial],
     sum |-> [t \in Threads(cfg) |-> ZeroPartial],
     acc |-> {},
     sync |-> [t \in Threads(cfg) |-> 0]]

\* an access of thread t to shared memory since the last barrier
Access(t, array, slot, write) == [t |-> t, loc |-> <<array, slot>>, write |-> write]

\* variant: every lane of the window fills the header
WritesHeaderEveryLane(cfg, t) == Lane(cfg, t) >= 0

\* if ((threadIdx.x & thread_mask) == 0): the thread fills the header
WritesHeader(cfg, t) == Lane(cfg, t) = 0

\* variant: n_windows = mol_len / window_size, without the pass that covers
\* the remainder
LaneVisitsWholeWindows(cfg, hdr, ln) ==
    {v \in {[k |-> start * cfg.window_size + ln, start |-> start] :
               start \in 0..((d_molecule_len[hdr.mol_idx] \div cfg.window_size) - 1)} :
        v.k < d_molecule_len[hdr.mol_idx]}

\* the member slots the loop of a lane visits: k = start * window_size +
\* lane for start = 0 .. n_windows-1, taken when k < mol_len
LaneVisits(cfg, hdr, ln) ==
    {v \in {[k |-> start * cfg.window_size + ln, start |-> start] :
               start \in 0..(d_molecule_len[hdr.mol_idx] \div cfg.window_size)} :
        v.k < d_molecule_len[hdr.mol_idx]}

\* the passes of the loop of a lane: start = 0 .. n_windows-1 with
\* n_windows = mol_len / window_size + 1
LanePasses(cfg, hdr) == 0..(d_molecule_len[hdr.mol_idx] \div cfg.window_size)

\* the visits in which the lane folds and zeroes a member
LaneFolds(cfg, hdr, ln) ==
    {[pidx |-> d_molecule_list[Index2D(molecule_indexer, hdr.mol_idx, v.k)],
      start |-> v.start] : v \in
        {w \in LaneVisits(cfg, hdr, ln) :
            d_molecule_list[Index2D(molecule_indexer, hdr.mol_idx, w.k)] # hdr.central_idx}}

\* the sums a lane gathers
LanePartial(cfg, hdr, ln) ==
    IF kern.fn = "force"
    THEN TheOne({[force |-> g.force, torque |-> g.torque, virial |-> Zero6] :
            g \in {GatherForce(cfg, hdr, ln, 0, [force |-> Zero4, torque |-> Zero3])}})
    ELSE [force |-> Zero4, torque |-> Zero3,
          virial |-> GatherVirial(cfg, hdr, ln, 0, Zero6)]

\* variant: the round stores the partner's slot instead of adding it
CombineSlotsOverwrite(scratch, t, offset) == scratch[t + offset]

\* one round of the reduction for a thread below the offset
CombineSlots(scratch, t, offset) == AddPartial(scratch[t], scratch[t + offset])

Arrives(b, t, phase) ==
    /\ b \in DOMAIN blk
    /\ blk[b].phase = phase
    /\ t \in Threads(kern.cfg) \ blk[b].done

WriteHeader(b, t) ==
    /\ Arrives(b, t, "header")
    /\ \E m \in {BodySlot(kern.cfg, t)} :
         blk' = [blk EXCEPT
            ![b].done = @ \cup {t},
            ![b].hdr = IF WritesHeader(kern.cfg, t)
                       THEN [@ EXCEPT ![m] = Header(kern.cfg, b, m)] ELSE @,
            ![b].acc = IF WritesHeader(kern.cfg, t)
                       THEN @ \cup {Access(t, "header", m, TRUE)} ELSE @]
    /\ UNCHANGED <<layout_vars, particle_vars, net_vars, out_vars, op, fault,
                   host_vars, kern, hist>>

Gather(b, t) ==
    /\ Arrives(b, t, "gather")
    /\ \E m \in {BodySlot(kern.cfg, t)} : \E ln \in {Lane(kern.cfg, t)} :
       \E hdr \in {blk[b].hdr[m]} :
       \E partial \in {IF Gathers(hdr) THEN LanePartial(kern.cfg, hdr, ln)
                       ELSE ZeroPartial} :
       \E visits \in {IF Gathers(hdr) THEN LaneVisits(kern.cfg, hdr, ln) ELSE {}} :
       \E folds \in {IF Gathers(hdr) THEN LaneFolds(kern.cfg, hdr, ln) ELSE {}} :
       \E folded \in {{f.pidx : f \in folds}} :
          /\ blk' = [blk EXCEPT ![b].done = @ \cup {t},
                                ![b].sum = [@ EXCEPT ![t] = partial],
                                ![b].acc = @ \cup {Access(t, "header", m, FALSE)}]
          /\ hist' = [hist EXCEPT
                !.visits = @ \cup {[mol |-> hdr.mol_idx, k |-> v.k, start |-> v.start,
                                    b |-> b, t |-> t] : v \in visits},
                !.zeroed = @ \cup {[pidx |-> f.pidx, start |-> f.start,
                                    b |-> b, t |-> t] : f \in folds},
                !.passes = @ \cup {[start |-> start, b |-> b, t |-> t] : start \in
                                      (IF Gathers(hdr) THEN LanePasses(kern.cfg, hdr)
                                       ELSE {})}]
          /\ IF kern.fn = "force"
             THEN /\ d_net_force' =
                        [i \in Indices |-> NetForceAfterForce(kern.zero_force, folded, i)]
                  /\ d_net_torque' = [i \in Indices |-> NetTorqueAfterForce(folded, i)]
                  /\ UNCHANGED d_net_virial
             ELSE /\ d_net_force' = [i \in Indices |-> NetForceAfterVirial(folded, i)]
                  /\ d_net_virial' = [x \in 0..(6 * net_virial_pitch - 1) |->
                                         NetVirialAfterVirial(folded, x)]
                  /\ UNCHANGED d_net_torque
    /\ UNCHANGED <<layout_vars, particle_vars, out_vars, op, fault, host_vars, kern>>

StoreSums(b, t) ==
    /\ Arrives(b, t, "scratch")
    /\ blk' = [blk EXCEPT ![b].done = @ \cup {t},
                          ![b].scratch = [@ EXCEPT ![t] = blk[b].sum[t]],
                          ![b].acc = @ \cup {Access(t, "scratch", t, TRUE)}]
    /\ UNCHANGED <<layout_vars, particle_vars, net_vars, out_vars, op, fault,
                   host_vars, kern, hist>>

Combine(b, t) ==
    /\ Arrives(b, t, "reduce")
    /\ \E offset \in {blk[b].offset} :
         blk' = [blk EXCEPT
            ![b].done = @ \cup {t},
            ![b].scratch = IF Lane(kern.cfg, t) < offset
                           THEN [@ EXCEPT ![t] = CombineSlots(blk[b].scratch, t, offset)]
                           ELSE @,
            ![b].acc = IF Lane(kern.cfg, t) < offset
                       THEN @ \cup {Access(t, "scratch", t, FALSE),
                                    Access(t, "scratch", t + offset, FALSE),
                                    Access(t, "scratch", t, TRUE)}
                       ELSE @]
    /\ UNCHANGED <<layout_vars, particle_vars, net_vars, out_vars, op, fault,
                   host_vars, kern, hist>>

Publish(b, t) ==
    /\ Arrives(b, t, "publish")
    /\ \E m \in {BodySlot(kern.cfg, t)} : \E hdr \in {blk[b].hdr[BodySlot(kern.cfg, t)]} :
       \E total \in {blk[b].scratch[t]} :
         IF Lane(kern.cfg, t) = 0
         THEN /\ blk' = [blk EXCEPT
                     ![b].done = @ \cup {t},
                     ![b].acc = @ \cup
                        ({Access(t, "header", m, FALSE)} \cup
                         (IF hdr.mol_idx # NO_BODY
                          THEN {Access(t, "scratch", t, FALSE)} ELSE {}))]
              /\ IF hdr.mol_idx # NO_BODY
                 THEN /\ hist' = [hist EXCEPT !.out = @ \cup
                             {[slot |-> hdr.central_idx, b |-> b, m |-> m]}]
                      /\ IF kern.fn = "force"
                         THEN /\ d_force' = [d_force EXCEPT ![hdr.central_idx] = total.force]
                              /\ d_torque' = [d_torque EXCEPT ![hdr.central_idx] =
                                    <<total.torque[1], total.torque[2], total.torque[3], 0>>]
                              /\ UNCHANGED d_virial
                         ELSE /\ d_virial' = [x \in DOMAIN d_virial |->
                                    IF x % virial_pitch = hdr.central_idx
                                    THEN total.virial[(x \div virial_pitch) + 1]
                                    ELSE d_virial[x]]
                              /\ UNCHANGED <<d_force, d_torque>>
                 ELSE UNCHANGED <<hist, out_vars>>
         ELSE /\ blk' = [blk EXCEPT ![b].done = @ \cup {t}]
              /\ UNCHANGED <<hist, out_vars>>
    /\ UNCHANGED <<layout_vars, particle_vars, net_vars, op, fault, host_vars, kern>>

\* variant: no barrier between the gather loop and the reduction, the
\* private sums are left out of the scratch slots
AfterBarrierWithoutStore(cfg, phase, offset) ==
    IF phase = "header" THEN [phase |-> "gather", offset |-> 0]
    ELSE LET next == IF phase = "gather" THEN cfg.window_size \div 2 ELSE offset \div 2
         IN  IF next > 0 THEN [phase |-> "reduce", offset |-> next]
             ELSE [phase |-> "publish", offset |-> 0]

\* the phase and the offset after the barrier that ends a phase
AfterBarrier(cfg, phase, offset) ==
    IF phase = "header" THEN [phase |-> "gather", offset |-> 0]
    ELSE IF phase = "gather" THEN [phase |-> "scratch", offset |-> 0]
    ELSE LET next == IF phase = "scratch" THEN cfg.window_size \div 2 ELSE offset \div 2
         IN  IF next > 0 THEN [phase |-> "reduce", offset |-> next]
             ELSE [phase |-> "publish", offset |-> 0]

\* __syncthreads(): all threads of the block have arrived
Barrier(b) ==
    /\ b \in DOMAIN blk
    /\ blk[b].phase \in {"header", "gather", "scratch", "reduce"}
    /\ blk[b].done = Threads(kern.cfg)
    /\ \E next \in {AfterBarrier(kern.cfg, blk[b].phase, blk[b].offset)} :
         blk' = [blk EXCEPT ![b].phase = next.phase, ![b].offset = next.offset,
                            ![b].done = {}, ![b].acc = {},
                            ![b].sync = [t \in Threads(kern.cfg) |->
                                            IF t \in blk[b].done THEN @[t] + 1 ELSE @[t]]]
    /\ UNCHANGED <<layout_vars, particle_vars, net_vars, out_vars, op, fault,
                   host_vars, kern, hist>>

\* all threads of the block have returned
BlockExit(b) ==
    /\ b \in DOMAIN blk
    /\ blk[b].phase = "publish"
    /\ blk[b].done = Threads(kern.cfg)
    /\ blk' = [blk EXCEPT ![b].phase = "exit", ![b].done = {}, ![b].acc = {}]
    /\ UNCHANGED <<layout_vars, particle_vars, net_vars, out_vars, op, fault,
                   host_vars, kern, hist>>

\* the state at the kernel launch: the entry point has reset the output
\* arrays and computed the launch parameters
KernelInit ==
    \E l \in Layouts :
        /\ InitWith(l, 1, 1)
        /\ call = NoCall
        /\ \E fn \in {"force", "virial"} : \E cfg \in KernelLaunches(fn) :
           \E zero_force \in (IF fn = "force" THEN BOOLEAN ELSE {FALSE}) :
              /\ kern = [fn |-> fn, cfg |-> cfg, zero_force |-> zero_force]
              /\ blk = [b \in Blocks(cfg) |-> InitialBlock(cfg)]
        /\ hist = [pre |-> [net_force |-> d_net_force, net_torque |-> d_net_torque,
                            net_virial |-> d_net_virial, force |-> d_force,
                            torque |-> d_torque, virial |-> d_virial],
                   visits |-> {}, zeroed |-> {}, passes |-> {}, out |-> {}]

KernelNext ==
    \/ \E b \in DOMAIN blk : \E t \in Threads(kern.cfg) : WriteHeader(b, t)
    \/ \E b \in DOMAIN blk : \E t \in Threads(kern.cfg) : Gather(b, t)
    \/ \E b \in DOMAIN blk : \E t \in Threads(kern.cfg) : StoreSums(b, t)
    \/ \E b \in DOMAIN blk : \E t \in Threads(kern.cfg) : Combine(b, t)
    \/ \E b \in DOMAIN blk : \E t \in Threads(kern.cfg) : Publish(b, t)
    \/ \E b \in DOMAIN blk : Barrier(b)
    \/ \E b \in DOMAIN blk : BlockExit(b)

KernelSpec == KernelInit /\ [][KernelNext]_vars

(***************************************************************************)
(* Vocabulary of the properties: bodies, members and sums, read off the    *)
(* molecule index and the template definitions.                            *)
(***************************************************************************)
Bodies == 0..(n_mol - 1)
CentralOf(b) == d_molecule_list[b]
MembersOf(b) == {d_molecule_list[k * n_mol + b] : k \in 0..(d_molecule_len[b] - 1)}
ConstituentsOf(b) == MembersOf(b) \ {CentralOf(b)}
Processed(b) == CentralOf(b) < N
FoldedConstituents == UNION {ConstituentsOf(b) : b \in {x \in Bodies : Processed(x)}}

VecAdd(a, b) == [c \in DOMAIN a |-> a[c] + b[c]]

RECURSIVE VecSum(_, _, _)
\* the sum of f[i] over i in S
VecSum(f, S, zero) ==
    IF S = {} THEN zero
    ELSE LET i == CHOOSE x \in S : TRUE
         IN  VecAdd(f[i], VecSum(f, S \ {i}, zero))

\* template offset of constituent i of the body with central c, rotated
\* by the orientation the central holds
SpaceOffset(c, i) ==
    rotate(d_orientation[c], TemplatePos(d_postype[c][4], d_tag[i] - d_tag[c] - 1))

\* net torque of constituent i plus r x f about the central c
TorqueAbout(c, i) ==
    LET f == d_net_force[i]
        r == SpaceOffset(c, i)
    IN  <<d_net_torque[i][1] + r[2] * f[3] - r[3] * f[2],
          d_net_torque[i][2] + r[3] * f[1] - r[1] * f[3],
          d_net_torque[i][3] + r[1] * f[2] - r[2] * f[1],
          0>>

\* the six net virial components of particle i
NetVirialOf(i) == [c \in 1..6 |-> d_net_virial[(c - 1) * net_virial_pitch + i]]

\* net virial of constituent i less f (x) r, components xx, xy, xz, yy, yz, zz
VirialAbout(c, i) ==
    LET f == d_net_force[i]
        r == SpaceOffset(c, i)
        V == NetVirialOf(i)
    IN  <<V[1] - f[1] * r[1], V[2] - f[1] * r[2], V[3] - f[1] * r[3],
          V[4] - f[2] * r[2], V[5] - f[2] * r[3], V[6] - f[3] * r[3]>>

(***************************************************************************)
(* Properties of the reducer                                               *)
(***************************************************************************)
\* C1: after a force pass the output force (x, y, z and energy) of the
\* central of every body whose central index is below N is the sum of the
\* net forces its non-central members held when the pass started; it is
\* zero when all of them are zero.
C1_ForceIsSumOfConstituents ==
    [][op'.kind = "force" =>
         \A b \in Bodies : Processed(b) =>
            /\ d_force'[CentralOf(b)] = VecSum(d_net_force, ConstituentsOf(b), Zero4)
            /\ ((\A i \in ConstituentsOf(b) : d_net_force[i] = Zero4)
                  => d_force'[CentralOf(b)] = Zero4)]_vars

\* a force pass has summed two non-zero constituent forces onto a central
C1_Witness ==
    /\ op.kind = "force"
    /\ \E b \in Bodies :
          /\ Processed(b)
          /\ Cardinality(ConstituentsOf(b)) >= 2
          /\ d_force[CentralOf(b)] # Zero4

\* C2: after a force pass the output torque of the central of every body
\* whose central index is below N is the sum over its non-central members
\* of net torque + r x f, r the template offset rotated by the central's
\* orientation; the fourth component is zero.
C2_TorqueIsSumOfConstituents ==
    [][op'.kind = "force" =>
         \A b \in Bodies : Processed(b) =>
            /\ d_torque'[CentralOf(b)] =
                 VecSum([i \in Indices |-> TorqueAbout(CentralOf(b), i)],
                        ConstituentsOf(b), Zero4)
            /\ d_torque'[CentralOf(b)][4] = 0]_vars

\* a force pass has written a torque that the r x f terms changed, for a
\* central that is not in the identity orientation
C2_Witness ==
    /\ op.kind = "force"
    /\ \E b \in Bodies :
          /\ Processed(b)
          /\ ConstituentsOf(b) # {}
          /\ d_orientation[CentralOf(b)] # <<1, 0, 0, 0>>
          /\ d_torque[CentralOf(b)] # Zero4
          /\ d_torque[CentralOf(b)] # VecSum(d_net_torque, ConstituentsOf(b), Zero4)

\* C3: a force pass leaves every folded constituent with net torque zero,
\* and with net force and energy zero if zero_force is set and unchanged
\* if it is not.
C3_ConstituentZeroing ==
    [][op'.kind = "force" =>
         \A i \in FoldedConstituents :
            /\ d_net_torque'[i] = Zero4
            /\ op'.flag => d_net_force'[i] = Zero4
            /\ ~op'.flag => d_net_force'[i] = d_net_force[i]]_vars

\* a force pass without zero_force has left a non-zero constituent force
\* in place and zeroed the torque
C3_Witness ==
    /\ op.kind = "force"
    /\ ~op.flag
    /\ \E i \in FoldedConstituents : d_net_force[i] # Zero4 /\ d_net_torque[i] = Zero4

\* C4: a body whose central index is not below N is skipped by the force
\* pass and the virial pass: its members keep their net force, torque and
\* virial and the pass leaves the output slots of its central as they
\* were.
C4_SkippedBodyUntouched ==
    [][op'.kind \in {"force", "virial"} =>
         \A b \in Bodies : ~Processed(b) =>
            /\ \A i \in MembersOf(b) :
                  /\ d_net_force'[i] = d_net_force[i]
                  /\ d_net_torque'[i] = d_net_torque[i]
                  /\ NetVirialOf(i)' = NetVirialOf(i)
            /\ op'.kind = "force" =>
                  /\ d_force'[CentralOf(b)] = d_force[CentralOf(b)]
                  /\ d_torque'[CentralOf(b)] = d_torque[CentralOf(b)]
            /\ op'.kind = "virial" =>
                  \A c \in 0..5 : d_virial'[c * virial_pitch + CentralOf(b)]
                                    = d_virial[c * virial_pitch + CentralOf(b)]]_vars

\* C5: after a virial pass each of the six output virial components of the
\* central of every body whose central index is below N is the sum over
\* its non-central members of net virial - f_a * r_b, and every folded
\* member has its six net virial components and its net force zero.
C5_VirialIsCorrectedSum ==
    [][op'.kind = "virial" =>
         /\ \A b \in Bodies : Processed(b) =>
               \A c \in 1..6 :
                  d_virial'[(c - 1) * virial_pitch + CentralOf(b)] =
                     VecSum([i \in Indices |-> VirialAbout(CentralOf(b), i)],
                            ConstituentsOf(b), Zero6)[c]
         /\ \A i \in FoldedConstituents :
               /\ d_net_force'[i] = Zero4
               /\ NetVirialOf(i)' = Zero6]_vars

\* a virial pass has written a virial that the f (x) r terms changed
C5_Witness ==
    /\ op.kind = "virial"
    /\ \E b \in Bodies :
          /\ Processed(b)
          /\ ConstituentsOf(b) # {}
          /\ d_orientation[CentralOf(b)] # <<1, 0, 0, 0>>
          /\ \E c \in 0..5 : d_virial[c * virial_pitch + CentralOf(b)] # 0
    /\ \A i \in FoldedConstituents : d_net_force[i] = Zero4 /\ NetVirialOf(i) = Zero6

\* every folded constituent holds zero net force, torque and virial
AllFoldedZero ==
    \A i \in FoldedConstituents :
        d_net_force[i] = Zero4 /\ d_net_torque[i] = Zero4 /\ NetVirialOf(i) = Zero6

\* C6: after a force pass with zero_force followed by a virial pass every
\* folded constituent reads back zero net force, torque and virial; a
\* further force pass or virial pass on these inputs leaves them zero and
\* gives every processed central zero force, torque and virial.
C6_SecondPassAddsNothing ==
    [][/\ (op.kind = "force" /\ op.flag /\ op'.kind = "virial") => AllFoldedZero'
       /\ (AllFoldedZero /\ op'.kind = "force") =>
             /\ AllFoldedZero'
             /\ \A b \in Bodies : Processed(b) =>
                   d_force'[CentralOf(b)] = Zero4 /\ d_torque'[CentralOf(b)] = Zero4
       /\ (AllFoldedZero /\ op'.kind = "virial") =>
             /\ AllFoldedZero'
             /\ \A b \in Bodies : Processed(b) =>
                   \A c \in 0..5 : d_virial'[c * virial_pitch + CentralOf(b)] = 0]_vars

\* a non-zero force field sample was folded and zeroed, and a second force
\* pass and virial pass have then given a central zero force and virial
C6_Witness ==
    /\ op.kind = "virial"
    /\ AllFoldedZero
    /\ \E b \in Bodies :
          /\ Processed(b)
          /\ ConstituentsOf(b) # {}
          /\ d_net_force[CentralOf(b)] # Zero4
          /\ d_force[CentralOf(b)] = Zero4
          /\ \A c \in 0..5 : d_virial[c * virial_pitch + CentralOf(b)] = 0

(***************************************************************************)
(* Properties of the spreader                                              *)
(***************************************************************************)
\* index of the central particle of the body of particle i
CentralIdx(i) == d_rtag[d_body[i]]

\* particle i belongs to a body whose central particle is held
Resolved(i) == d_body[i] # NO_BODY /\ CentralIdx(i) # NOT_LOCAL

\* particle i is a constituent that a pass with this remote flag processes
Spread(i, remote) == Resolved(i) /\ i # CentralIdx(i) /\ (remote \/ CentralIdx(i) < N)

PosOf(i) == <<d_postype[i][1], d_postype[i][2], d_postype[i][3]>>

\* template entry of constituent i
LocalPos(i) == TemplatePos(d_postype[CentralIdx(i)][4], d_tag[i] - d_body[i] - 1)
LocalOrientation(i) ==
    TemplateOrientation(d_postype[CentralIdx(i)][4], d_tag[i] - d_body[i] - 1)

\* C7: after a spreader pass every processed constituent i holds the
\* position wrap(position(c) + rotate(orientation(c), local_pos)); with
\* the identity central orientation that is wrap(position(c) + local_pos).
C7_ConstituentPosition ==
    [][(op'.kind = "update" /\ ~fault') =>
         \A i \in Indices : Spread(i, op'.flag) =>
            /\ PosOf(i)' =
                 wrap(Add3(PosOf(CentralIdx(i)),
                           rotate(d_orientation[CentralIdx(i)], LocalPos(i))),
                      d_image[CentralIdx(i)]).pos
            /\ d_orientation[CentralIdx(i)] = <<1, 0, 0, 0>> =>
                 PosOf(i)' = wrap(Add3(PosOf(CentralIdx(i)), LocalPos(i)),
                                  d_image[CentralIdx(i)]).pos]_vars

\* a pass has placed a constituent of a rotated central where the
\* unrotated offset would not have placed it
C7_Witness ==
    /\ op.kind = "update"
    /\ ~fault
    /\ \E i \in Indices :
          /\ Spread(i, op.flag)
          /\ d_orientation[CentralIdx(i)] # <<1, 0, 0, 0>>
          /\ PosOf(i) # wrap(Add3(PosOf(CentralIdx(i)), LocalPos(i)),
                             d_image[CentralIdx(i)]).pos
          /\ PosOf(i) = wrap(Add3(PosOf(CentralIdx(i)),
                                  rotate(d_orientation[CentralIdx(i)], LocalPos(i))),
                             d_image[CentralIdx(i)]).pos

\* C8: after a spreader pass every processed constituent i holds the
\* orientation orientation(c) * local_orient.
C8_ConstituentOrientation ==
    [][(op'.kind = "update" /\ ~fault') =>
         \A i \in Indices : Spread(i, op'.flag) =>
            d_orientation'[i] = QuatMul(d_orientation[CentralIdx(i)], LocalOrientation(i))]_vars

\* C9: a spreader pass, with either remote flag, leaves position, type,
\* orientation and image of every particle without a body and of every
\* central particle unchanged.
C9_FreeAndCentralUntouched ==
    [][op'.kind = "update" =>
         \A i \in Indices :
            (d_body[i] = NO_BODY \/ i = CentralIdx(i)) =>
               /\ d_postype'[i] = d_postype[i]
               /\ d_orientation'[i] = d_orientation[i]
               /\ d_image'[i] = d_image[i]]_vars

\* a pass has moved a constituent while a free particle and the central
\* of the constituent were there to be skipped
C9_Witness ==
    /\ op.kind = "update"
    /\ \E i \in Indices : Spread(i, op.flag) /\ PosOf(i) # Zero3
                            /\ d_body[CentralIdx(i)] = d_tag[CentralIdx(i)]
    /\ \E j \in Indices : d_body[j] = NO_BODY

\* C10: in a spreader pass, with either remote flag, a particle whose
\* central cannot be resolved is left unchanged and no array is read or
\* written at the unresolved index.
C10_UnresolvedCentralIsNoOp ==
    [][op'.kind = "update" =>
         /\ ~fault'
         /\ \A i \in Indices :
               (d_body[i] # NO_BODY /\ CentralIdx(i) = NOT_LOCAL) =>
                  /\ d_postype'[i] = d_postype[i]
                  /\ d_orientation'[i] = d_orientation[i]
                  /\ d_image'[i] = d_image[i]]_vars

\* position of constituent i before the wrap
Unwrapped(i) ==
    Add3(PosOf(CentralIdx(i)), rotate(d_orientation[CentralIdx(i)], LocalPos(i)))

\* C11: a spreader pass with remote = false leaves every constituent whose
\* central has a storage index not below N unchanged; a pass with remote =
\* true updates a constituent whose central is held as a ghost from the
\* position, orientation and image of that ghost.
C11_RemoteCentral ==
    [][op'.kind = "update" =>
         \A i \in Indices :
            /\ (~op'.flag /\ d_body[i] # NO_BODY /\ UGeq(CentralIdx(i), N)) =>
                  /\ d_postype'[i] = d_postype[i]
                  /\ d_orientation'[i] = d_orientation[i]
                  /\ d_image'[i] = d_image[i]
            /\ (op'.flag /\ ~fault' /\ d_body[i] # NO_BODY /\ i # CentralIdx(i)
                  /\ UGeq(CentralIdx(i), N) /\ ULess(CentralIdx(i), N + n_ghost)) =>
                  /\ PosOf(i)' = wrap(Unwrapped(i), d_image[CentralIdx(i)]).pos
                  /\ d_image'[i] = wrap(Unwrapped(i), d_image[CentralIdx(i)]).img
                  /\ d_postype'[i][4] = d_postype[i][4]]_vars

\* a remote pass has placed a constituent of a ghost central, which a
\* pass without remote had left where it was
C11_Witness ==
    /\ op.kind = "update"
    /\ op.flag
    /\ ~fault
    /\ \E i \in Indices :
          /\ Spread(i, TRUE)
          /\ ~Spread(i, FALSE)
          /\ PosOf(i) # Zero3
          /\ PosOf(i) = wrap(Unwrapped(i), d_image[CentralIdx(i)]).pos

\* C12: the image a spreader pass writes for a processed constituent is
\* the image of the central shifted by the wrap of the computed position,
\* whatever image the constituent had; the written position lies in the
\* primary box; per axis the image differs from the central's by one when
\* the unwrapped position lies outside the box on that axis and by zero
\* otherwise.
C12_WrapAndImage ==
    [][(op'.kind = "update" /\ ~fault') =>
         \A i \in Indices : Spread(i, op'.flag) =>
            \A a \in 1..3 :
               /\ BoxLo <= d_postype'[i][a] /\ d_postype'[i][a] < BoxHi
               /\ d_image'[i][a] - d_image[CentralIdx(i)][a] =
                     (IF Unwrapped(i)[a] >= BoxHi THEN 1
                      ELSE IF Unwrapped(i)[a] < BoxLo THEN 0 - 1 ELSE 0)
               /\ d_postype'[i][a] =
                     Unwrapped(i)[a]
                       - BoxL * (d_image'[i][a] - d_image[CentralIdx(i)][a])]_vars

\* a pass has wrapped a constituent across one face of the box: its image
\* is one off the non-zero image of its central on exactly one axis
C12_Witness ==
    /\ op.kind = "update"
    /\ ~fault
    /\ \E i \in Indices :
          /\ Spread(i, op.flag)
          /\ d_image[CentralIdx(i)] # Zero3
          /\ \E a \in 1..3 :
                /\ Unwrapped(i)[a] >= BoxHi \/ Unwrapped(i)[a] < BoxLo
                /\ d_image[i][a] - d_image[CentralIdx(i)][a] \in {1, 0 - 1}
                /\ \A c \in (1..3) \ {a} : d_image[i][c] = d_image[CentralIdx(i)][c]

(***************************************************************************)
(* Properties of the reducer entry points                                  *)
(***************************************************************************)
IsPowerOfTwo(n) == n >= 1 /\ BitAnd(n, n - 1) = 0

\* C13: for every preferred block size, thread ceiling, shared memory
\* budget and bodies-per-block value, the block size a reducer entry point
\* launches with is a power of two, not above the ceiling nor the preferred
\* size, and equal to window_size * n_bodies_per_block with window_size >= 1
\* and thread_mask = window_size - 1.
C13_GroupWidthPolicy ==
    (call.fn # "none" /\ call.launched) =>
        /\ IsPowerOfTwo(call.cfg.run_block_size)
        /\ call.cfg.run_block_size <= call.max_block_size
        /\ call.cfg.run_block_size <= call.block_size
        /\ call.cfg.window_size >= 1
        /\ call.cfg.run_block_size = call.cfg.window_size * call.n_bodies_per_block
        /\ call.cfg.thread_mask = call.cfg.window_size - 1

\* C14: a reducer entry point called with more than HeaderSlots bodies per
\* block launches nothing and returns an error, so that the body slot m of
\* every thread of a launch is below HeaderSlots.
C14_WideGroupsRejected ==
    call.fn # "none" =>
        /\ call.n_bodies_per_block > HeaderSlots =>
              ~call.launched /\ call.result = "error"
        /\ (call.launched /\ call.cfg.window_size >= 1) =>
              \A t \in Threads(call.cfg) : BodySlot(call.cfg, t) < HeaderSlots

SeqForceMember(st, c, i, zero_force) ==
    LET f == st.net_force[i]
        t == st.net_torque[i]
        r == SpaceOffset(c, i)
    IN  [sum_f |-> VecAdd(st.sum_f, f),
         sum_t |-> VecAdd(st.sum_t, <<t[1] + r[2] * f[3] - r[3] * f[2],
                                      t[2] + r[3] * f[1] - r[1] * f[3],
                                      t[3] + r[1] * f[2] - r[2] * f[1], 0>>),
         net_force |-> IF zero_force THEN [st.net_force EXCEPT ![i] = Zero4]
                       ELSE st.net_force,
         net_torque |-> [st.net_torque EXCEPT ![i] = Zero4]]

RECURSIVE SeqForceBody(_, _, _, _, _)
SeqForceBody(st, c, b, k, zero_force) ==
    IF k >= d_molecule_len[b] THEN st
    ELSE TheOne({SeqForceBody(next, c, b, k + 1, zero_force) :
            next \in {IF d_molecule_list[Index2D(molecule_indexer, b, k)] = c THEN st
                      ELSE SeqForceMember(st, c,
                               d_molecule_list[Index2D(molecule_indexer, b, k)],
                               zero_force)}})

RECURSIVE SeqForce(_, _, _)
\* bodies b .. n_mol-1 in turn; a body whose central is not locally owned
\* is skipped
SeqForce(st, b, zero_force) ==
    IF b >= n_mol THEN st
    ELSE IF ~Processed(b) THEN SeqForce(st, b + 1, zero_force)
    ELSE TheOne({SeqForce([force |-> [st.force EXCEPT ![CentralOf(b)] = r.sum_f],
                           torque |-> [st.torque EXCEPT ![CentralOf(b)] = r.sum_t],
                           net_force |-> r.net_force,
                           net_torque |-> r.net_torque], b + 1, zero_force) :
            r \in {SeqForceBody([sum_f |-> Zero4, sum_t |-> Zero4,
                                 net_force |-> st.net_force,
                                 net_torque |-> st.net_torque],
                                CentralOf(b), b, 0, zero_force)}})

\* the arrays after the sequential force pass: the N local output slots
\* are reset, then the bodies are folded
SequentialForce(zero_force) ==
    TheOne({SeqForce(st, 0, zero_force) :
        st \in {[force |-> [i \in Indices |-> IF i < N THEN Zero4 ELSE d_force[i]],
                 torque |-> [i \in Indices |-> IF i < N THEN Zero4 ELSE d_torque[i]],
                 net_force |-> d_net_force,
                 net_torque |-> d_net_torque]}})

SeqVirialMember(st, c, i) ==
    LET f == st.net_force[i]
        r == SpaceOffset(c, i)
        V == [x \in 1..6 |-> st.net_virial[(x - 1) * net_virial_pitch + i]]
    IN  [sum_v |-> VecAdd(st.sum_v,
                          <<V[1] - f[1] * r[1], V[2] - f[1] * r[2], V[3] - f[1] * r[3],
                            V[4] - f[2] * r[2], V[5] - f[2] * r[3], V[6] - f[3] * r[3]>>),
         net_force |-> [st.net_force EXCEPT ![i] = Zero4],
         net_virial |-> [x \in DOMAIN st.net_virial |->
                            IF x % net_virial_pitch = i THEN 0 ELSE st.net_virial[x]]]

RECURSIVE SeqVirialBody(_, _, _, _)
SeqVirialBody(st, c, b, k) ==
    IF k >= d_molecule_len[b] THEN st
    ELSE TheOne({SeqVirialBody(next, c, b, k + 1) :
            next \in {IF d_molecule_list[Index2D(molecule_indexer, b, k)] = c THEN st
                      ELSE SeqVirialMember(st, c,
                               d_molecule_list[Index2D(molecule_indexer, b, k)])}})

RECURSIVE SeqVirial(_, _)
SeqVirial(st, b) ==
    IF b >= n_mol THEN st
    ELSE IF ~Processed(b) THEN SeqVirial(st, b + 1)
    ELSE TheOne({SeqVirial([virial |-> [x \in DOMAIN st.virial |->
                                IF x % virial_pitch = CentralOf(b)
                                THEN r.sum_v[(x \div virial_pitch) + 1]
                                ELSE st.virial[x]],
                            net_force |-> r.net_force,
                            net_virial |-> r.net_virial], b + 1) :
            r \in {SeqVirialBody([sum_v |-> Zero6, net_force |-> st.net_force,
                                  net_virial |-> st.net_virial], CentralOf(b), b, 0)}})

\* the arrays after the sequential virial pass: all output entries are
\* reset, then the bodies are folded
SequentialVirial ==
    TheOne({SeqVirial(st, 0) :
        st \in {[virial |-> [x \in 0..(6 * virial_pitch - 1) |-> 0],
                 net_force |-> d_net_force,
                 net_virial |-> d_net_virial]}})

\* C15: for every power-of-two window size and 1, 2, 4 or 8 bodies per
\* block the force pass and the virial pass leave the output arrays and the
\* net arrays as the plain sequential loop over bodies and members leaves
\* them, whatever the launch parameters.
C15_SameAsSequentialLoop ==
    [][/\ op'.kind = "force" =>
             \E seq \in {SequentialForce(op'.flag)} :
                /\ d_force' = seq.force
                /\ d_torque' = seq.torque
                /\ d_net_force' = seq.net_force
                /\ d_net_torque' = seq.net_torque
       /\ op'.kind = "virial" =>
             \E seq \in {SequentialVirial} :
                /\ d_virial' = seq.virial
                /\ d_net_force' = seq.net_force
                /\ d_net_virial' = seq.net_virial]_vars

\* the same, told of the bodies whose central particle is locally owned
\* and of all net arrays
SameAsSequentialOnLocalBodies ==
    [][/\ op'.kind = "force" =>
             \E seq \in {SequentialForce(op'.flag)} :
                /\ \A i \in 0..(N - 1) : d_force'[i] = seq.force[i] /\ d_torque'[i] = seq.torque[i]
                /\ d_net_force' = seq.net_force
                /\ d_net_torque' = seq.net_torque
       /\ op'.kind = "virial" =>
             \E seq \in {SequentialVirial} :
                /\ d_virial' = seq.virial
                /\ d_net_force' = seq.net_force
                /\ d_net_virial' = seq.net_virial]_vars

(***************************************************************************)
(* Properties of a launch followed thread by thread                        *)
(***************************************************************************)
\* every block has run to its end
KernelDone == \A b \in DOMAIN blk : blk[b].phase = "exit"

\* the block has passed the barrier that ends the gather loop
Gathered(b) == blk[b].phase \in {"scratch", "reduce", "publish", "exit"}

\* C17: in a force or virial launch every member slot k in 0 .. mol_len-1
\* of a body whose central index is below N is visited exactly once, by
\* a lane of the window that holds the body and with k = start *
\* window_size + lane; every non-central member is read and zeroed in
\* exactly one visit.
C17_EachMemberVisitedOnce ==
    /\ \A v \in hist.visits :
          /\ v.k = v.start * kern.cfg.window_size + Lane(kern.cfg, v.t)
          /\ blk[v.b].hdr[BodySlot(kern.cfg, v.t)].mol_idx = v.mol
    /\ \A v \in hist.visits : \A w \in hist.visits :
          (v.mol = w.mol /\ v.k = w.k) => v = w
    /\ \A z \in hist.zeroed : \A y \in hist.zeroed : z.pidx = y.pidx => z = y
    /\ \A b \in DOMAIN blk : Gathered(b) =>
          \A m \in DOMAIN blk[b].hdr : Gathers(blk[b].hdr[m]) =>
             /\ \A k \in 0..(d_molecule_len[blk[b].hdr[m].mol_idx] - 1) :
                   \E v \in hist.visits : v.mol = blk[b].hdr[m].mol_idx /\ v.k = k
             /\ \A i \in ConstituentsOf(blk[b].hdr[m].mol_idx) :
                   \E z \in hist.zeroed : z.pidx = i
    /\ KernelDone =>
          \A b \in Bodies : Processed(b) =>
             /\ \A k \in 0..(d_molecule_len[b] - 1) :
                   Cardinality({v \in hist.visits : v.mol = b /\ v.k = k}) = 1
             /\ \A i \in ConstituentsOf(b) :
                   Cardinality({z \in hist.zeroed : z.pidx = i}) = 1

\* a launch has ended in which a body longer than its window was covered
\* in more than one pass, by more than one lane
C17_Witness ==
    /\ KernelDone
    /\ \E v \in hist.visits : \E w \in hist.visits :
          /\ v.mol = w.mol
          /\ v.start >= 1
          /\ Lane(kern.cfg, w.t) >= 1
    /\ hist.zeroed # {}

\* the threads of window m of a block
WindowThreads(cfg, m) == {t \in Threads(cfg) : BodySlot(cfg, t) = m}

RECURSIVE SumPartials(_, _)
\* the sum of the private sums f[t] of the threads t in S
SumPartials(f, S) ==
    IF S = {} THEN ZeroPartial
    ELSE LET t == CHOOSE x \in S : TRUE
         IN  AddPartial(f[t], SumPartials(f, S \ {t}))

\* C18: for the window sizes 1, 2, 4 and 8, once the combine rounds are
\* over the scratch slot of lane 0 of every window holds the sum of the
\* private sums of the lanes of that window, and in no round has a lane
\* read or written a scratch slot of another window.
C18_WindowReduction ==
    \A b \in DOMAIN blk :
       /\ blk[b].phase \in {"publish", "exit"} =>
             \A t \in Threads(kern.cfg) : Lane(kern.cfg, t) = 0 =>
                blk[b].scratch[t] =
                   SumPartials(blk[b].sum, WindowThreads(kern.cfg, BodySlot(kern.cfg, t)))
       /\ \A a \in blk[b].acc : a.loc[1] = "scratch" =>
             /\ a.loc[2] \in Threads(kern.cfg)
             /\ BodySlot(kern.cfg, a.loc[2]) = BodySlot(kern.cfg, a.t)

\* a window of four or more lanes has been combined in two or more rounds
\* from two or more non-zero private sums
C18_Witness ==
    \E b \in DOMAIN blk :
       /\ blk[b].phase = "publish"
       /\ kern.cfg.window_size >= 4
       /\ \E t \in Threads(kern.cfg) :
             /\ Lane(kern.cfg, t) = 0
             /\ blk[b].scratch[t] # ZeroPartial
             /\ Cardinality({u \in WindowThreads(kern.cfg, BodySlot(kern.cfg, t)) :
                                blk[b].sum[u] # ZeroPartial}) >= 2

\* two accesses of different threads to one location of shared memory, one
\* of them a write
Conflict(a, c) == a.t # c.t /\ a.loc = c.loc /\ (a.write \/ c.write)

\* C19: under every interleaving of the threads of a block, between two
\* consecutive barriers no scratch slot and no header entry is written by
\* one thread and read or written by another: before the first barrier
\* the header is only written, the scratch slots are all stored before a
\* round of the reduction starts, and in a round the slots written and
\* the partner slots read are disjoint.
C19_NoRaceBetweenBarriers ==
    \A b \in DOMAIN blk :
       /\ \A a \in blk[b].acc : \A c \in blk[b].acc : ~Conflict(a, c)
       /\ blk[b].phase = "header" =>
             \A a \in blk[b].acc : a.loc[1] = "header" /\ a.write
       /\ blk[b].phase = "scratch" =>
             \A a \in blk[b].acc : a.loc = <<"scratch", a.t>> /\ a.write
       /\ blk[b].phase = "reduce" =>
             {a.loc : a \in {c \in blk[b].acc : c.write}} \cap
             {a.loc : a \in {c \in blk[b].acc : ~c.write /\ c.loc[2] # c.t}} = {}

\* all threads of a block have gone through a round of the reduction in
\* which two lanes of a window wrote their slots and read their partners'
C19_Witness ==
    \E b \in DOMAIN blk :
       /\ blk[b].phase = "reduce"
       /\ blk[b].done = Threads(kern.cfg)
       /\ \E a \in blk[b].acc : \E c \in blk[b].acc :
             /\ a.write /\ c.write /\ a.t # c.t
             /\ BodySlot(kern.cfg, a.t) = BodySlot(kern.cfg, c.t)
       /\ \E a \in blk[b].acc : ~a.write /\ a.loc[2] # a.t

\* the member lists of the bodies are pairwise disjoint
MemberListsDisjoint ==
    \A a \in Bodies : \A b \in Bodies : a # b => MembersOf(a) \cap MembersOf(b) = {}

\* the body with central index i, if there is one
BodiesWithCentral(i) == {b \in Bodies : CentralOf(b) = i}

\* TorqueAbout and VirialAbout on the net arrays held at the launch
PreTorqueAbout(c, i) ==
    LET f == hist.pre.net_force[i]
        r == SpaceOffset(c, i)
        q == hist.pre.net_torque[i]
    IN  <<q[1] + r[2] * f[3] - r[3] * f[2],
          q[2] + r[3] * f[1] - r[1] * f[3],
          q[3] + r[1] * f[2] - r[2] * f[1],
          0>>

PreVirialAbout(c, i) ==
    LET f == hist.pre.net_force[i]
        r == SpaceOffset(c, i)
        V == [k \in 1..6 |-> hist.pre.net_virial[(k - 1) * net_virial_pitch + i]]
    IN  <<V[1] - f[1] * r[1], V[2] - f[1] * r[2], V[3] - f[1] * r[3],
          V[4] - f[2] * r[2], V[5] - f[2] * r[3], V[6] - f[3] * r[3]>>

\* what slot i of an output array holds when the launch has ended: the total
\* of the body whose central is i (zero if the central index is not below N),
\* the value held at the launch if i is no central
FinalOut(i, total, zero, held) ==
    IF BodiesWithCentral(i) = {} THEN held
    ELSE IF Processed(TheOne(BodiesWithCentral(i))) THEN total ELSE zero

\* C20: in a force or virial launch over bodies with pairwise disjoint
\* member lists no two windows write the same slot of d_force, d_torque or
\* d_virial and no two lanes read and zero the same constituent; when all
\* blocks have ended the output arrays and the net arrays hold values fixed
\* by the arrays held at the launch, whatever the order the blocks and
\* their threads ran in.
C20_GroupsIndependent ==
    MemberListsDisjoint =>
       /\ \A o \in hist.out : \A q \in hist.out : o.slot = q.slot => o = q
       /\ \A z \in hist.zeroed : \A y \in hist.zeroed :
             z.pidx = y.pidx => (z.b = y.b /\ z.t = y.t)
       /\ (KernelDone /\ kern.fn = "force") =>
             \A i \in Indices :
                /\ d_force[i] =
                      FinalOut(i, VecSum(hist.pre.net_force,
                                         UNION {ConstituentsOf(b) : b \in BodiesWithCentral(i)},
                                         Zero4),
                               Zero4, hist.pre.force[i])
                /\ d_torque[i] =
                      FinalOut(i, VecSum([j \in Indices |-> PreTorqueAbout(i, j)],
                                         UNION {ConstituentsOf(b) : b \in BodiesWithCentral(i)},
                                         Zero4),
                               Zero4, hist.pre.torque[i])
                /\ d_net_force[i] = IF i \in FoldedConstituents /\ kern.zero_force
                                    THEN Zero4 ELSE hist.pre.net_force[i]
                /\ d_net_torque[i] = IF i \in FoldedConstituents
                                     THEN Zero4 ELSE hist.pre.net_torque[i]
       /\ (KernelDone /\ kern.fn = "virial") =>
             \A i \in Indices :
                /\ \A c \in 1..6 :
                      d_virial[(c - 1) * virial_pitch + i] =
                         FinalOut(i, VecSum([j \in Indices |-> PreVirialAbout(i, j)],
                                            UNION {ConstituentsOf(b) : b \in BodiesWithCentral(i)},
                                            Zero6)[c],
                                  0, hist.pre.virial[(c - 1) * virial_pitch + i])
                /\ d_net_force[i] = IF i \in FoldedConstituents
                                    THEN Zero4 ELSE hist.pre.net_force[i]
                /\ \A c \in 1..6 :
                      d_net_virial[(c - 1) * net_virial_pitch + i] =
                         IF i \in FoldedConstituents THEN 0
                         ELSE hist.pre.net_virial[(c - 1) * net_virial_pitch + i]

\* a launch has ended in which windows of two blocks wrote the totals of two
\* bodies and lanes of two blocks zeroed constituents
C20_Witness ==
    /\ KernelDone
    /\ MemberListsDisjoint
    /\ \E o \in hist.out : \E q \in hist.out : o.b # q.b /\ o.slot # q.slot
    /\ \E z \in hist.zeroed : \E y \in hist.zeroed : z.b # y.b
    /\ \E b \in Bodies : Processed(b) /\
          (d_force[CentralOf(b)] # Zero4 \/
           \E c \in 0..5 : d_virial[c * virial_pitch + CentralOf(b)] # 0)

(***************************************************************************)
(* Properties of the sizing loop                                           *)
(***************************************************************************)
\* the block size after the rounding down of lines 474-477, before the loop
\* of lines 484-493
RoundedBlockSize == RoundDownPow2(1, Min(call.max_block_size, call.block_size))

\* dynamic plus static shared memory of a block of width w fits the budget
FitsBudget(w) ==
    w * BytesPerThread(call.fn) + StaticSharedBytes < call.sharedMemPerBlock

\* C21: for every preferred block size, ceiling and shared memory budget
\* the loop that halves the block size while the dynamic plus the static
\* shared bytes are not below the budget ends, and it ends with a block
\* size of at least n_bodies_per_block.
C21_SizingLoopEnds ==
    call.fn # "none" =>
        /\ ~call.cfg.hang
        /\ call.cfg.run_block_size >= call.n_bodies_per_block

\* C22: at the launch the dynamic shared bytes, block size * bytes per
\* thread (a Scalar4 and a Scalar3 in the force pass, six Scalars in the
\* virial pass), plus the static shared bytes are below the budget, and the
\* block size is the largest power of two not above the rounded block size
\* for which this holds.
C22_LargestFittingWidth ==
    (call.fn # "none" /\ call.launched) =>
        /\ call.cfg.shared_bytes = call.cfg.run_block_size * BytesPerThread(call.fn)
        /\ FitsBudget(call.cfg.run_block_size)
        /\ IsPowerOfTwo(call.cfg.run_block_size)
        /\ call.cfg.run_block_size <= RoundedBlockSize
        /\ \A w \in (call.cfg.run_block_size + 1)..RoundedBlockSize :
              IsPowerOfTwo(w) => ~FitsBudget(w)

\* the same whenever the budget has room for a block of one thread
LargestFittingWidthIfOneFits ==
    (call.fn # "none" /\ call.launched /\ FitsBudget(1)) => C22_LargestFittingWidth

\* the loop ends whenever the budget is above the static shared bytes
SizingLoopEndsIfStaticFits ==
    (call.fn # "none" /\ FitsBudget(0)) => ~call.cfg.hang

(***************************************************************************)
(* The window passes of a lane against a loop of ceiling(mol_len /         *)
(* window_size) passes                                                     *)
(***************************************************************************)
CeilingPasses(cfg, hdr) ==
    (d_molecule_len[hdr.mol_idx] + cfg.window_size - 1) \div cfg.window_size

RECURSIVE GatherForceCeilingPasses(_, _, _, _, _)
GatherForceCeilingPasses(cfg, hdr, ln, start, acc) ==
    LET pidx == MemberAt(cfg, hdr, ln, start)
    IN  IF start >= CeilingPasses(cfg, hdr) THEN acc
        ELSE GatherForceCeilingPasses(cfg, hdr, ln, start + 1,
                 IF Folds(hdr, pidx)
                 THEN [force |-> Add4(acc.force, ForceTerm(hdr, pidx)),
                       torque |-> Add3(acc.torque, TorqueTerm(hdr, pidx))]
                 ELSE acc)

RECURSIVE GatherVirialCeilingPasses(_, _, _, _, _)
GatherVirialCeilingPasses(cfg, hdr, ln, start, acc) ==
    LET pidx == MemberAt(cfg, hdr, ln, start)
    IN  IF start >= CeilingPasses(cfg, hdr) THEN acc
        ELSE GatherVirialCeilingPasses(cfg, hdr, ln, start + 1,
                 IF Folds(hdr, pidx) THEN Add6(acc, VirialTerm(hdr, pidx)) ELSE acc)

\* the private sums of a lane with the shorter loop
CeilingPartial(cfg, hdr, ln) ==
    IF kern.fn = "force"
    THEN TheOne({[force |-> g.force, torque |-> g.torque, virial |-> Zero6] :
            g \in {GatherForceCeilingPasses(cfg, hdr, ln, 0,
                                            [force |-> Zero4, torque |-> Zero3])}})
    ELSE [force |-> Zero4, torque |-> Zero3,
          virial |-> GatherVirialCeilingPasses(cfg, hdr, ln, 0, Zero6)]

\* the members a lane folds and zeroes with the shorter loop
CeilingFolded(cfg, hdr, ln) ==
    {pidx \in {MemberAt(cfg, hdr, ln, start) : start \in 0..(CeilingPasses(cfg, hdr) - 1)} :
        Folds(hdr, pidx)}

\* thread t of block b runs its gather loop in this step, over a body
GathersInStep(b, t) ==
    /\ blk[b].phase = "gather"
    /\ t \notin blk[b].done
    /\ t \in blk'[b].done
    /\ Gathers(blk[b].hdr[BodySlot(kern.cfg, t)])

\* C23: every lane of a window over a body makes floor(mol_len /
\* window_size) + 1 passes; when window_size divides mol_len the last pass
\* visits no member; and the private sums of the lane and the net arrays
\* after its loop are those of a loop of ceiling(mol_len / window_size)
\* passes.
C23_ExcessPassIsIdle ==
    /\ [](\A b \in DOMAIN blk : \A t \in blk[b].done :
            (blk[b].phase = "gather" /\ Gathers(blk[b].hdr[BodySlot(kern.cfg, t)])) =>
               \E hdr \in {blk[b].hdr[BodySlot(kern.cfg, t)]} :
                  /\ Cardinality({p \in hist.passes : p.b = b /\ p.t = t}) =
                        (d_molecule_len[hdr.mol_idx] \div kern.cfg.window_size) + 1
                  /\ d_molecule_len[hdr.mol_idx] % kern.cfg.window_size = 0 =>
                        ~\E v \in hist.visits :
                            /\ v.mol = hdr.mol_idx
                            /\ v.start = d_molecule_len[hdr.mol_idx] \div kern.cfg.window_size)
    /\ [][\A b \in DOMAIN blk : \A t \in Threads(kern.cfg) : GathersInStep(b, t) =>
            \E hdr \in {blk[b].hdr[BodySlot(kern.cfg, t)]} :
            \E folded \in {CeilingFolded(kern.cfg, hdr, Lane(kern.cfg, t))} :
               /\ blk'[b].sum[t] = CeilingPartial(kern.cfg, hdr, Lane(kern.cfg, t))
               /\ kern.fn = "force" =>
                     /\ d_net_force' = [i \in Indices |->
                            NetForceAfterForce(kern.zero_force, folded, i)]
                     /\ d_net_torque' = [i \in Indices |-> NetTorqueAfterForce(folded, i)]
               /\ kern.fn = "virial" =>
                     /\ d_net_force' = [i \in Indices |-> NetForceAfterVirial(folded, i)]
                     /\ d_net_virial' = [x \in 0..(6 * net_virial_pitch - 1) |->
                                            NetVirialAfterVirial(folded, x)]]_vars

\* a lane has made the excess pass over a body whose length its window
\* size divides, after folding a member with a non-zero sum
C23_Witness ==
    \E b \in DOMAIN blk : \E t \in blk[b].done :
       /\ blk[b].phase = "gather"
       /\ Gathers(blk[b].hdr[BodySlot(kern.cfg, t)])
       /\ kern.cfg.window_size >= 2
       /\ d_molecule_len[blk[b].hdr[BodySlot(kern.cfg, t)].mol_idx] = kern.cfg.window_size
       /\ [start |-> 1, b |-> b, t |-> t] \in hist.passes
       /\ blk[b].sum[t] # ZeroPartial
       /\ \E z \in hist.zeroed : z.b = b /\ z.t = t

(***************************************************************************)
(* Properties of whole passes, continued                                   *)
(***************************************************************************)
\* C24: in a force or virial pass the central particle of a body whose
\* central index is below N, the member at slot 0, adds nothing to the
\* output force, torque and virial of the body, which are the sums over
\* the other members only, and its own net force, net torque and net
\* virial are left as they were.
C24_CentralExcluded ==
    [][op'.kind \in {"force", "virial"} =>
         \A b \in Bodies : Processed(b) =>
            \E c \in {CentralOf(b)} :
               /\ d_molecule_list[Index2D(molecule_indexer, b, 0)] = c
               /\ d_net_force'[c] = d_net_force[c]
               /\ d_net_torque'[c] = d_net_torque[c]
               /\ NetVirialOf(c)' = NetVirialOf(c)
               /\ op'.kind = "force" =>
                     /\ d_force'[c] = VecSum(d_net_force, MembersOf(b) \ {c}, Zero4)
                     /\ d_torque'[c] = VecSum([i \in Indices |-> TorqueAbout(c, i)],
                                              MembersOf(b) \ {c}, Zero4)
               /\ op'.kind = "virial" =>
                     \A k \in 1..6 :
                        d_virial'[(k - 1) * virial_pitch + c] =
                           VecSum([i \in Indices |-> VirialAbout(c, i)],
                                  MembersOf(b) \ {c}, Zero6)[k]]_vars

\* a pass has run over a body whose central particle holds a non-zero net
\* force, torque and virial, and has written a total that differs from
\* those
C24_Witness ==
    /\ op.kind \in {"force", "virial"}
    /\ \E b \in Bodies :
          /\ Processed(b)
          /\ ConstituentsOf(b) # {}
          /\ d_net_force[CentralOf(b)] # Zero4
          /\ d_net_torque[CentralOf(b)] # Zero4
          /\ NetVirialOf(CentralOf(b)) # Zero6
          /\ op.kind = "force" => d_force[CentralOf(b)] # Zero4
          /\ op.kind = "virial" =>
                \E k \in 0..5 : d_virial[k * virial_pitch + CentralOf(b)] # 0

(***************************************************************************)
(* Two runs of one pass from states that differ in the orientations stored *)
(* for the non-central particles: the first run, then the arrays put back  *)
(* as they were with other stored orientations, then the second run.       *)
(***************************************************************************)
\* orientation sample o stored for the non-central particle with tag t
\* (sample 0 is the one of Init)
StoredOrientation(o, t) == Orientations[((o * (t + 1)) % 3) + 1]

StoredSamples == 1..2

Snapshot ==
    [postype |-> d_postype, orientation |-> d_orientation, image |-> d_image,
     net_force |-> d_net_force, net_torque |-> d_net_torque, net_virial |-> d_net_virial,
     force |-> d_force, torque |-> d_torque, virial |-> d_virial, op |-> op,
     fault |-> fault]

TwinInit ==
    \E l \in Layouts : \E q \in 0..MaxMotion :
        /\ InitWith(l, 1, q)
        /\ call = NoCall
        /\ kern = NoKernel
        /\ blk = <<>>
        /\ hist = [run |-> 1, pre |-> Snapshot, first |-> Snapshot]

\* one pass of a run
TwinPass(A) == op.kind = "init" /\ A

\* the arrays are put back as they were before the first run, but for the
\* orientations stored for the non-central particles
Rerun(o) ==
    /\ hist.run = 1
    /\ op.kind # "init"
    /\ hist' = [hist EXCEPT !.run = 2, !.first = Snapshot]
    /\ d_postype' = hist.pre.postype
    /\ d_image' = hist.pre.image
    /\ d_orientation' = [i \in DOMAIN d_orientation |->
            IF d_body[i] = d_tag[i] THEN hist.pre.orientation[i]
            ELSE StoredOrientation(o, d_tag[i])]
    /\ d_net_force' = hist.pre.net_force
    /\ d_net_torque' = hist.pre.net_torque
    /\ d_net_virial' = hist.pre.net_virial
    /\ d_force' = hist.pre.force
    /\ d_torque' = hist.pre.torque
    /\ d_virial' = hist.pre.virial
    /\ op' = hist.pre.op
    /\ fault' = hist.pre.fault
    /\ UNCHANGED <<layout_vars, host_vars, kern, blk>>

TwinNext ==
    \/ \E cfg \in ForceLaunches : \E zero_force \in BOOLEAN :
          TwinPass(gpu_rigid_force(cfg, zero_force))
    \/ \E cfg \in VirialLaunches : TwinPass(gpu_rigid_virial(cfg))
    \/ \E launch \in UpdateLaunches : \E remote \in BOOLEAN :
          TwinPass(gpu_update_composite(launch, remote))
    \/ \E o \in StoredSamples : Rerun(o)

TwinSpec == TwinInit /\ [][TwinNext]_vars

\* the second run has made the pass the first run made
SamePassTwice == hist.run = 2 /\ op = hist.first.op /\ ~fault /\ ~hist.first.fault

\* C25: two runs of the force pass, of the virial pass or of the spreader
\* pass from states that differ only in the orientations stored for the
\* non-central particles give the same output force, torque and virial and
\* the same positions and images of the constituents the spreader
\* processes.
C25_StoredOrientationIgnored ==
    SamePassTwice =>
        /\ d_force = hist.first.force
        /\ d_torque = hist.first.torque
        /\ d_virial = hist.first.virial
        /\ op.kind = "update" =>
              \A i \in Indices : Spread(i, op.flag) =>
                 /\ d_postype[i] = hist.first.postype[i]
                 /\ d_image[i] = hist.first.image[i]

\* the second run has ended from other stored orientations than the first,
\* with a torque or a virial that the rotated offsets changed, or with a
\* constituent moved
C25_Witness ==
    /\ SamePassTwice
    /\ \E i \in Indices : d_orientation[i] # hist.pre.orientation[i]
    /\ \/ op.kind = "force" /\ \E b \in Bodies :
             Processed(b) /\ d_orientation[CentralOf(b)] # <<1, 0, 0, 0>> /\
             d_torque[CentralOf(b)] # VecSum(hist.pre.net_torque, ConstituentsOf(b), Zero4)
       \/ op.kind = "virial" /\ \E b \in Bodies : \E c \in 1..6 :
             Processed(b) /\
             d_virial[(c - 1) * virial_pitch + CentralOf(b)] #
                VecSum([i \in Indices |->
                          [k \in 1..6 |-> hist.pre.net_virial[(k - 1) * net_virial_pitch + i]]],
                       ConstituentsOf(b), Zero6)[c]
       \/ op.kind = "update" /\ \E i \in Indices :
             Spread(i, op.flag) /\ d_postype[i] # hist.pre.postype[i]

(***************************************************************************)
(* Properties of the spreader, continued                                   *)
(***************************************************************************)
\* C26: a spreader pass leaves the type of every particle as it was; the
\* type written with the new position of a processed constituent is the
\* type the constituent had, not the body type of its central particle.
C26_TypePreserved ==
    [][op'.kind = "update" =>
         \A i \in Indices : d_postype'[i][4] = d_postype[i][4]]_vars

\* a spreader pass has moved a constituent whose type differs from the body
\* type of its central particle
C26_Witness ==
    /\ op.kind = "update"
    /\ ~fault
    /\ \E i \in Indices :
          /\ Spread(i, op.flag)
          /\ d_postype[i][4] # d_postype[CentralIdx(i)][4]
          /\ PosOf(i) # Zero3

(***************************************************************************)
(* The template index                                                      *)
(***************************************************************************)
\* the tags of the held members of body b run on from the tag of its
\* central particle
ContiguousTags(b) ==
    {d_tag[i] : i \in MembersOf(b)} =
        d_tag[CentralOf(b)]..(d_tag[CentralOf(b)] + d_molecule_len[b] - 1)

\* the header the reducer kernels hold for body b
HeaderOf(b) ==
    [mol_idx |-> b, central_idx |-> CentralOf(b),
     body_type |-> d_postype[CentralOf(b)][4],
     body_orientation |-> d_orientation[CentralOf(b)]]

\* C27: for every non-central member of a body whose member tags run on
\* from tag(central) + 1, the template index tag - central_tag - 1 that
\* the reducer and the spreader compute lies in 0 .. mol_len - 2 and has
\* not wrapped around; for the central particle the expression wraps to
\* UINT_MAX, and neither kernel reads the template for it.
C27_TemplateIndexInRange ==
    \A b \in Bodies : ContiguousTags(b) =>
       /\ \A i \in ConstituentsOf(b) :
             /\ LocalIdx(d_tag[i], d_tag[CentralOf(b)]) \in 0..(d_molecule_len[b] - 2)
             /\ LocalIdx(d_tag[i], d_tag[CentralOf(b)]) = d_tag[i] - d_tag[CentralOf(b)] - 1
             /\ LocalIdx(d_tag[i], d_body[i]) = LocalIdx(d_tag[i], d_tag[CentralOf(b)])
             /\ Folds(HeaderOf(b), i)
       /\ LocalIdx(d_tag[CentralOf(b)], d_tag[CentralOf(b)]) = UINT_MAX
       /\ LocalIdx(d_tag[CentralOf(b)], d_body[CentralOf(b)]) = UINT_MAX
       /\ ~Folds(HeaderOf(b), CentralOf(b))
       /\ \A remote \in BOOLEAN : UpdateBranch(CentralOf(b), remote) = "return"

\* a pass has run over a body of three members, whose second constituent
\* has the template index 1
C27_Witness ==
    /\ op.kind \in {"force", "virial", "update"}
    /\ \E b \in Bodies :
          /\ ContiguousTags(b)
          /\ d_molecule_len[b] = 3
          /\ \E i \in ConstituentsOf(b) : LocalIdx(d_tag[i], d_body[i]) = 1

(***************************************************************************)
(* The force pass and the virial pass in sequence                          *)
(***************************************************************************)
\* C28: a virial pass straight after a force pass without zero_force leaves
\* the output force and torque the force pass wrote, sum f and sum (t + r x
\* f), and writes the virial sum (V - f (x) r) from the forces the force
\* pass summed; straight after a force pass with zero_force it reads zero
\* forces and writes sum V; a force pass straight after a virial pass
\* writes a zero output force, the virial pass having zeroed the net force
\* of every folded member.
C28_PassOrderMatters ==
    [][/\ (op.kind = "force" /\ op'.kind = "virial") =>
            /\ d_force' = d_force
            /\ d_torque' = d_torque
            /\ \A b \in Bodies : Processed(b) =>
                  /\ ~op.flag =>
                        /\ d_force[CentralOf(b)] =
                              VecSum(d_net_force, ConstituentsOf(b), Zero4)
                        /\ \A c \in 1..6 :
                              d_virial'[(c - 1) * virial_pitch + CentralOf(b)] =
                                 VecSum([i \in Indices |-> VirialAbout(CentralOf(b), i)],
                                        ConstituentsOf(b), Zero6)[c]
                  /\ op.flag =>
                        /\ \A i \in ConstituentsOf(b) : d_net_force[i] = Zero4
                        /\ \A c \in 1..6 :
                              d_virial'[(c - 1) * virial_pitch + CentralOf(b)] =
                                 VecSum([i \in Indices |-> NetVirialOf(i)],
                                        ConstituentsOf(b), Zero6)[c]
       /\ (op.kind = "virial" /\ op'.kind = "force") =>
            \A b \in Bodies : Processed(b) => d_force'[CentralOf(b)] = Zero4]_vars

\* a virial pass has followed a force pass that kept the net forces: the
\* output force, torque and virial of a body are all non-zero and the
\* virial is not the sum of the net virials
C28_Witness ==
    /\ op.kind = "virial"
    /\ AllFoldedZero
    /\ \E b \in Bodies :
          /\ Processed(b)
          /\ d_force[CentralOf(b)] # Zero4
          /\ d_torque[CentralOf(b)] # Zero4
          /\ d_orientation[CentralOf(b)] # <<1, 0, 0, 0>>
          /\ \E c \in 0..5 : d_virial[c * virial_pitch + CentralOf(b)] # 0

(***************************************************************************)
(* Barriers                                                                *)
(***************************************************************************)
RECURSIVE Log2(_)
Log2(n) == IF n <= 1 THEN 0 ELSE 1 + Log2(n \div 2)

\* the barriers and the end of the kernel a block in this phase has ahead
PhaseRank(phase, offset) ==
    IF phase = "exit" THEN 0
    ELSE IF phase = "publish" THEN 1
    ELSE IF phase = "reduce" THEN 2 + Log2(offset)
    ELSE IF phase = "scratch" THEN 2 + Log2(kern.cfg.window_size)
    ELSE IF phase = "gather" THEN 3 + Log2(kern.cfg.window_size)
    ELSE 4 + Log2(kern.cfg.window_size)

\* the steps block b has ahead: one per thread and one for the barrier in
\* every phase left
BlockRank(b) ==
    PhaseRank(blk[b].phase, blk[b].offset) * (kern.cfg.run_block_size + 1)
        - Cardinality(blk[b].done)

\* C29: every thread of a block passes the same number of barriers, and
\* once the reduction is over that number is 3 + log2(window_size),
\* whether the window of the thread holds a body with a local central, a
\* body that is skipped or no body; in a block that has not ended either
\* a thread has its stretch of code to run or all threads have arrived,
\* and every step of the launch brings one block nearer to its end and no
\* block further from it, so that every thread reaches the end of the
\* kernel.
C29_UniformBarriers ==
    /\ [](\A b \in DOMAIN blk :
            /\ \A t \in Threads(kern.cfg) : \A u \in Threads(kern.cfg) :
                  blk[b].sync[t] = blk[b].sync[u]
            /\ blk[b].phase \in {"publish", "exit"} =>
                  \A t \in Threads(kern.cfg) :
                     blk[b].sync[t] = 3 + Log2(kern.cfg.window_size)
            /\ blk[b].phase # "exit" =>
                  \/ \E t \in Threads(kern.cfg) : t \notin blk[b].done
                  \/ blk[b].done = Threads(kern.cfg)
            /\ BlockRank(b) >= 0
            /\ BlockRank(b) = 0 <=> blk[b].phase = "exit")
    /\ [][/\ \A b \in DOMAIN blk : BlockRank(b)' <= BlockRank(b)
          /\ \E b \in DOMAIN blk : BlockRank(b)' < BlockRank(b)]_vars

\* a launch has ended in which windows of two or more lanes held a body
\* with a local central, a skipped body and no body
C29_Witness ==
    /\ KernelDone
    /\ kern.cfg.window_size >= 2
    /\ \E b \in DOMAIN blk : \E m \in DOMAIN blk[b].hdr : Gathers(blk[b].hdr[m])
    /\ \E b \in DOMAIN blk : \E m \in DOMAIN blk[b].hdr :
          blk[b].hdr[m].mol_idx # NO_BODY /\ ~Gathers(blk[b].hdr[m])
    /\ \E b \in DOMAIN blk : \E m \in DOMAIN blk[b].hdr :
          blk[b].hdr[m].mol_idx = NO_BODY
    /\ \A b \in DOMAIN blk : \A t \in Threads(kern.cfg) : blk[b].sync[t] >= 4

(***************************************************************************)
(* Bodies and windows                                                      *)
(***************************************************************************)
\* every block has passed the barrier after the header
HeadersWritten == \A b \in DOMAIN blk : blk[b].phase # "header"

\* the windows of the launch: body slot m of block b
Windows == (DOMAIN blk) \X (0..(kern.cfg.n_bodies_per_block - 1))

\* C30: the launch has floor(n_mol / n_bodies_per_block) + 1 blocks; once
\* the headers are written every body index 0 .. n_mol-1 is held by
\* exactly one window, body slot m of block b with index = b *
\* n_bodies_per_block + m, and every window whose index is n_mol or more
\* is marked NO_BODY; the lanes of such a window visit no member, gather
\* zero sums and the window writes no output slot.
C30_BodiesToWindows ==
    /\ Cardinality(DOMAIN blk) = (n_mol \div kern.cfg.n_bodies_per_block) + 1
    /\ HeadersWritten =>
          /\ \A body \in Bodies :
                /\ Cardinality({w \in Windows :
                                  blk[w[1]].hdr[w[2]].mol_idx = body}) = 1
                /\ \A w \in Windows : blk[w[1]].hdr[w[2]].mol_idx = body =>
                      body = w[1] * kern.cfg.n_bodies_per_block + w[2]
          /\ \A w \in Windows :
                w[1] * kern.cfg.n_bodies_per_block + w[2] >= n_mol =>
                   blk[w[1]].hdr[w[2]].mol_idx = NO_BODY
    /\ \A w \in Windows :
          w[1] * kern.cfg.n_bodies_per_block + w[2] >= n_mol =>
             /\ \A t \in WindowThreads(kern.cfg, w[2]) :
                   /\ blk[w[1]].sum[t] = ZeroPartial
                   /\ ~\E v \in hist.visits : v.b = w[1] /\ v.t = t
                   /\ ~\E z \in hist.zeroed : z.b = w[1] /\ z.t = t
             /\ ~\E o \in hist.out : o.b = w[1] /\ o.m = w[2]

\* a launch of two or more bodies per block has ended: its last block held
\* a window without a body next to windows that wrote their totals
C30_Witness ==
    /\ KernelDone
    /\ kern.cfg.n_bodies_per_block >= 2
    /\ n_mol >= 2
    /\ \E w \in Windows : blk[w[1]].hdr[w[2]].mol_idx = NO_BODY
    /\ \E o \in hist.out : \E q \in hist.out : o.m # q.m

(***************************************************************************)
(* Two runs of one reducer pass from states that differ in the values the  *)
(* output arrays hold at the launch: the first run, then the arrays put    *)
(* back as they were with the output arrays as an earlier pass may have    *)
(* left them, then the second run.                                         *)
(***************************************************************************)
\* an output virial entry left by an earlier pass
StaleVirial == 7

\* the output arrays as an earlier pass on other inputs may have left them
LeftForce == [i \in Indices |-> Stale4]
LeftTorque == [i \in Indices |-> Stale4]
LeftVirial == [x \in 0..(6 * virial_pitch - 1) |-> StaleVirial]

LeftInit ==
    \E l \in Layouts : \E p \in 0..MaxPattern : \E q \in 0..MaxMotion :
        /\ InitWith(l, p, q)
        /\ call = NoCall
        /\ kern = NoKernel
        /\ blk = <<>>
        /\ hist = [run |-> 1, pre |-> Snapshot, first |-> Snapshot]

\* the inputs are put back as they were before the first run and the output
\* arrays hold what an earlier pass left
RerunOnLeft ==
    /\ hist.run = 1
    /\ op.kind # "init"
    /\ hist' = [run |-> 2, first |-> Snapshot,
                pre |-> [hist.pre EXCEPT !.force = LeftForce, !.torque = LeftTorque,
                                         !.virial = LeftVirial]]
    /\ d_net_force' = hist.pre.net_force
    /\ d_net_torque' = hist.pre.net_torque
    /\ d_net_virial' = hist.pre.net_virial
    /\ d_force' = LeftForce
    /\ d_torque' = LeftTorque
    /\ d_virial' = LeftVirial
    /\ op' = hist.pre.op
    /\ UNCHANGED <<layout_vars, particle_vars, fault, host_vars, kern, blk>>

LeftNext ==
    \/ \E cfg \in ForceLaunches : \E zero_force \in BOOLEAN :
          TwinPass(gpu_rigid_force(cfg, zero_force))
    \/ \E cfg \in VirialLaunches : TwinPass(gpu_rigid_virial(cfg))
    \/ RerunOnLeft

LeftSpec == LeftInit /\ [][LeftNext]_vars

\* the local index i is the central particle of a body the reducer folds
ProcessedCentral(i) == \E b \in Bodies : CentralOf(b) = i /\ Processed(b)

\* C31: a force pass launched on output arrays that hold the values an
\* earlier pass left gives every local slot the output force and torque
\* the same pass gives on zeroed output arrays, and every local slot that
\* is not the central of a processed body force and torque zero; a virial
\* pass does the same for all 6 * virial_pitch output virial entries.
C31_OutputsOverwritten ==
    (hist.run = 2 /\ op = hist.first.op) =>
        /\ op.kind = "force" =>
              \A i \in 0..(N - 1) :
                 /\ d_force[i] = hist.first.force[i]
                 /\ d_torque[i] = hist.first.torque[i]
                 /\ ~ProcessedCentral(i) => d_force[i] = Zero4 /\ d_torque[i] = Zero4
        /\ op.kind = "virial" =>
              \A x \in 0..(6 * virial_pitch - 1) :
                 /\ d_virial[x] = hist.first.virial[x]
                 /\ ~ProcessedCentral(x % virial_pitch) => d_virial[x] = 0

\* a force pass launched on output arrays full of left-over values has
\* ended: a central holds a sum that is neither zero nor the left-over
\* value, and a local constituent and a local free particle hold zero
C31_Witness ==
    /\ hist.run = 2
    /\ op = hist.first.op
    /\ op.kind = "force"
    /\ hist.pre.force = LeftForce
    /\ hist.pre.torque = LeftTorque
    /\ \E i \in 0..(N - 1) :
          ProcessedCentral(i) /\ d_force[i] \notin {Zero4, Stale4}
                              /\ d_torque[i] \notin {Zero4, Stale4}
    /\ \E i \in 0..(N - 1) : i \in FoldedConstituents /\ d_force[i] = Zero4
    /\ \E i \in 0..(N - 1) : d_body[i] = NO_BODY /\ d_torque[i] = Zero4

\* a virial pass launched on an output array full of left-over values has
\* ended with a non-zero central entry and zero entries elsewhere
VirialOverwrittenSeen ==
    /\ hist.run = 2
    /\ op = hist.first.op
    /\ op.kind = "virial"
    /\ hist.pre.virial = LeftVirial
    /\ \E x \in 0..(6 * virial_pitch - 1) :
          ProcessedCentral(x % virial_pitch) /\ d_virial[x] \notin {0, StaleVirial}
    /\ \E x \in 0..(6 * virial_pitch - 1) :
          ~ProcessedCentral(x % virial_pitch) /\ d_virial[x] = 0

(***************************************************************************)
(* The spreader run thread after thread, and run twice                     *)
(***************************************************************************)
\* the particles in ascending and in descending index order
Ascending == [k \in 1..NP |-> k - 1]
Descending == [k \in 1..NP |-> NP - k]

RECURSIVE SpreadInOrder(_, _, _, _)
\* the positions and images after the threads of order, from the k-th on,
\* have run one after the other on st, each reading what the threads
\* before it left
SpreadInOrder(order, k, st, remote) ==
    IF k > Len(order) THEN st
    ELSE LET idx == order[k]
             central_idx == d_rtag[d_body[idx]]
         IN  IF UpdateBranch(idx, remote) # "update"
             THEN SpreadInOrder(order, k + 1, st, remote)
             ELSE \* the thread reads at central_idx and writes at idx
                  LET u == UpdateFrom(idx, st.postype[central_idx],
                                      d_orientation[central_idx], st.image[central_idx])
                  IN  SpreadInOrder(order, k + 1,
                                    [postype |-> [st.postype EXCEPT ![idx] = u.postype],
                                     image |-> [st.image EXCEPT ![idx] = u.image]],
                                    remote)

\* every thread of a pass with this remote flag reads inside the arrays
AllReadsResolved(remote) == \A i \in Indices : UpdateBranch(i, remote) # "undefined"

\* every particle that other particles name as their central carries its
\* own tag as body tag
CentralsOwnTag == \A i \in Indices : Resolved(i) => d_body[CentralIdx(i)] = d_tag[CentralIdx(i)]

\* C32: a spreader pass changes position and image only at non-central
\* indices, and (every central carrying its own tag as body tag) a second
\* spreader pass with the same remote flag and unchanged centrals leaves
\* the position and image of every particle exactly as the first pass left
\* them.
C32_SpreaderIdempotent ==
    [][(op'.kind = "update" /\ CentralsOwnTag) =>
         /\ \A i \in Indices :
               (d_postype'[i] # d_postype[i] \/ d_image'[i] # d_image[i]) =>
                  d_body[i] # NO_BODY /\ d_body[i] # d_tag[i]
         /\ (op.kind = "update" /\ op.flag = op'.flag) =>
               d_postype' = d_postype /\ d_image' = d_image]_vars

\* a pass whose threads all read inside the arrays gives the result of its
\* threads run one after the other in ascending and in descending order
SpreaderOrderFree ==
    [][(op'.kind = "update" /\ CentralsOwnTag /\ AllReadsResolved(op'.flag)) =>
         \A order \in {Ascending, Descending} :
            SpreadInOrder(order, 1, [postype |-> d_postype, image |-> d_image], op'.flag)
              = [postype |-> d_postype', image |-> d_image']]_vars

\* a second pass whose threads all read inside the arrays leaves every
\* particle as the first pass left it
SpreaderIdempotentWhenResolved ==
    [][(op.kind = "update" /\ op'.kind = "update" /\ op.flag = op'.flag
          /\ CentralsOwnTag /\ AllReadsResolved(op'.flag)) =>
         d_postype' = d_postype /\ d_image' = d_image]_vars

=============================================================================
